---- MODULE Spec2Model ----
(***************************************************************************)
(* Taste-map recommendation engine.  The repository holds two engines with *)
(* the same exported interface: src/api/src (impl = "api") and             *)
(* src/worker/src (impl = "worker").  Both run against the same three D1   *)
(* tables: movies, taste_profile and recommendations (the result cache).   *)
(*                                                                         *)
(* Numbers: profile scores and confidences are kept in hundredths (0.85 is *)
(* 85); match scores are kept in units of 1/1200 (0.85 is 1020) so that    *)
(* the averages the code takes (over 1..2 genres and 1..3 factors) are     *)
(* exact.  Time is counted in hours since day 0, 00:00 UTC.                *)
(*                                                                         *)
(* The browser side (src/frontend) keeps the ratings of one user in a      *)
(* UserDataStore backed by localStorage and builds the fixed-dimension     *)
(* profile from them; there a rating score is kept in tenths (5 is 50, 2.5 *)
(* is 25) and a profile value as a quotient num / den in hundredths.  The  *)
(* genre and era scores computed from a rating history are kept as exact   *)
(* quotients.                                                              *)
(***************************************************************************)
EXTENDS Integers, Sequences, FiniteSets, TLC

\* ------------------------------------------------------------ constants
CACHE_EXPIRY_HOURS == 24
CACHE_DURATION_HOURS == 24
DEFAULT_COUNT == 10
MAX_COUNT == 50
MIN_SAMPLE_SIZE == 20

\* ------------------------------------------------------------ bounds
\* Rated rows of the movies table other than the films followed one by one.
OtherRated == 19
\* The clock stops at MaxClock hours and moves in steps of TickHours.
MaxClock == 36
TickHours == 12
\* Rows the recommendations table may hold (it is never pruned by the code).
MaxCache == 1
\* Rated rows a history of the score computations may grow to.
MaxRated == 101

\* ------------------------------------------------------------ the films
\* The rows an import can put into the movies table.  genres is the parsed
\* genre list of the column (a JSON array in the worker schema, a comma
\* separated string in the api schema); tmdb_rating 80 is 8.0; user_rating 0
\* is NULL.  A row's user_rating is set by the import and never updated.
Films ==
  [ tt1 |-> [imdb_id |-> "tt1", title |-> "Alpha",   year |-> 1975, genres |-> <<"Action">>,
             runtime_minutes |-> 100, tmdb_rating |-> 80, user_rating |-> 0],
    tt2 |-> [imdb_id |-> "tt2", title |-> "Bravo",   year |-> 1995, genres |-> <<"Action", "Drama">>,
             runtime_minutes |-> 120, tmdb_rating |-> 70, user_rating |-> 0],
    tt3 |-> [imdb_id |-> "tt3", title |-> "Charlie", year |-> 2012, genres |-> <<"Drama">>,
             runtime_minutes |-> 160, tmdb_rating |-> 90, user_rating |-> 0],
    tt4 |-> [imdb_id |-> "tt4", title |-> "Delta",   year |-> 2020, genres |-> <<"Comedy">>,
             runtime_minutes |-> 95,  tmdb_rating |-> 60, user_rating |-> 0],
    tt5 |-> [imdb_id |-> "tt5", title |-> "Echo",    year |-> 1999, genres |-> <<"Action">>,
             runtime_minutes |-> 110, tmdb_rating |-> 95, user_rating |-> 9] ]

\* The films of the table at the start.
SeedMovies == <<"tt1", "tt2", "tt3">>

\* ------------------------------------------------------------ sequences
Range(s) == {s[i] : i \in DOMAIN s}

Min(a, b) == IF a < b THEN a ELSE b

\* Array.prototype.slice(0, n)
Slice(s, n) == SubSeq(s, 1, Min(n, Len(s)))

RECURSIVE SumSeq(_)
SumSeq(s) == IF s = <<>> THEN 0 ELSE Head(s) + SumSeq(Tail(s))

\* Array.prototype.sort((a, b) => key(b) - key(a)), keys[i] being the key of
\* s[i]: descending by key and stable (equal keys keep their order).
SortDesc(s, keys) ==
  LET pos(i) == 1 + Cardinality({j \in 1..Len(s) :
                       keys[j] > keys[i] \/ (keys[j] = keys[i] /\ j < i)})
  IN [p \in 1..Len(s) |-> s[CHOOSE i \in 1..Len(s) : pos(i) = p]]

\* candidates.find(c => c.title === title): the first candidate with the
\* title, as a sequence of at most one element (<<>> is undefined).
FindTitle(candidates, title) ==
  LET hits == {i \in 1..Len(candidates) : candidates[i].title = title}
  IN IF hits = {} THEN <<>>
     ELSE <<candidates[CHOOSE i \in hits : \A j \in hits : i <= j]>>

\* Math.ceil(a / b) for a >= 0, b > 0
CeilDiv(a, b) == (a + b - 1) \div b

\* A map lookup with the code's "|| 0" default for an absent key.
Lookup(map, k) == IF k \in DOMAIN map THEN map[k] ELSE 0

\* ------------------------------------------------------------ taste profile
\* The order in which the keys of a genre or era map are walked.
AllGenres == <<"Action", "Comedy", "Drama">>
AllDecades == <<1970, 1990, 2010>>

\* What the pattern extraction of calculateTasteProfile can come to for the
\* rated rows, which the model does not follow one by one: genre and era
\* scores, themes, runtime preference and directors.
Tastes ==
  { [genres |-> [Action |-> 100, Drama |-> 40], eras |-> (1970 :> 90),
     themes |-> <<"revenge">>, runtime_preference |-> "medium", directors |-> <<>>],
    [genres |-> [Drama |-> 100, Comedy |-> 60], eras |-> (2010 :> 80),
     themes |-> <<>>, runtime_preference |-> "long", directors |-> <<"Nolan">>] }

\* loadTasteProfile's null.
NoProfile ==
  [found |-> FALSE, genres |-> <<>>, eras |-> <<>>, themes |-> <<>>, directors |-> <<>>,
   runtime_preference |-> "", sample_size |-> 0, confidence |-> 0]

\* The linear interpolation of the worker without its two cut-offs.
InterpolatedConfidence(sampleSize) ==
  ((sampleSize - MIN_SAMPLE_SIZE) * 100) \div (100 - MIN_SAMPLE_SIZE)

\* worker calculateConfidence, in hundredths.
WorkerConfidence(sampleSize) ==
  IF sampleSize < MIN_SAMPLE_SIZE THEN 0
  ELSE IF sampleSize >= 100 THEN 100
  ELSE ((sampleSize - MIN_SAMPLE_SIZE) * 100 + (100 - MIN_SAMPLE_SIZE) \div 2)
         \div (100 - MIN_SAMPLE_SIZE)

\* api calculateConfidence, in hundredths: min(n/100, 1), times 0.7 when the
\* variance of the genre scores is below 0.05, rounded to two places.
ApiConfidence(sampleSize, genres) ==
  LET base == Min(sampleSize, 100)
      vals == [i \in 1..Cardinality(DOMAIN genres) |->
                 genres[SelectSeq(AllGenres, LAMBDA g : g \in DOMAIN genres)[i]]]
      k    == Len(vals)
      sq   == SumSeq([i \in 1..k |-> vals[i] * vals[i]])
      low  == k > 0 /\ k * sq - SumSeq(vals) * SumSeq(vals) < 500 * k * k
  IN IF low THEN (base * 7 + 5) \div 10 ELSE base

\* The profile object calculateTasteProfile builds from a taste and the
\* number of rated rows.
BuildProfile(variant, taste, sampleSize) ==
  [found |-> TRUE, genres |-> taste.genres, eras |-> taste.eras, themes |-> taste.themes,
   directors |-> taste.directors, runtime_preference |-> taste.runtime_preference,
   sample_size |-> sampleSize,
   confidence |-> IF variant = "worker" THEN WorkerConfidence(sampleSize)
                  ELSE ApiConfidence(sampleSize, taste.genres)]

Row(name, value, size, meta) ==
  [dimension_name |-> name, dimension_value |-> value, sample_size |-> size, metadata |-> meta]

\* The INSERTs of the worker's calculateTasteProfile, in program order; each
\* is awaited.
WorkerStoreSteps(p) ==
  << [row |-> Row("genres", 0, p.sample_size, p.genres), awaited |-> TRUE],
     [row |-> Row("eras", 0, p.sample_size, p.eras), awaited |-> TRUE],
     [row |-> Row("themes", 0, p.sample_size, p.themes), awaited |-> TRUE],
     [row |-> Row("runtime_preference", p.confidence, p.sample_size, p.runtime_preference),
      awaited |-> TRUE],
     [row |-> Row("directors", p.confidence, p.sample_size, p.directors), awaited |-> TRUE] >>

\* The INSERTs of the api's storeTasteProfile, in program order.  The genre,
\* era and runtime rows are awaited; the theme and director rows are issued
\* inside forEach(async ...) and nobody waits for them.
ApiStoreSteps(p) ==
  LET gs == SelectSeq(AllGenres, LAMBDA g : g \in DOMAIN p.genres)
      es == SelectSeq(AllDecades, LAMBDA d : d \in DOMAIN p.eras)
  IN [i \in 1..Len(gs) |->
        [row |-> Row("genre", gs[i], p.sample_size, p.genres[gs[i]]), awaited |-> TRUE]]
     \o [i \in 1..Len(es) |->
        [row |-> Row("era", es[i], p.sample_size, p.eras[es[i]]), awaited |-> TRUE]]
     \o [i \in 1..Len(p.themes) |->
        [row |-> Row("theme", p.themes[i], p.sample_size, i), awaited |-> FALSE]]
     \o << [row |-> Row("runtime_preference", p.runtime_preference, p.sample_size, p.confidence),
            awaited |-> TRUE] >>
     \o [i \in 1..Len(p.directors) |->
        [row |-> Row("director", p.directors[i], p.sample_size, i), awaited |-> FALSE]]

StoreSteps(variant, p) ==
  IF variant = "worker" THEN WorkerStoreSteps(p) ELSE ApiStoreSteps(p)

\* One row folded into the profile under reconstruction (the forEach body of
\* loadTasteProfile).
WorkerLoadRow(p, row) ==
  CASE row.dimension_name = "genres" ->
         [p EXCEPT !.genres = row.metadata, !.sample_size = row.sample_size]
    [] row.dimension_name = "eras" -> [p EXCEPT !.eras = row.metadata]
    [] row.dimension_name = "themes" -> [p EXCEPT !.themes = row.metadata]
    [] row.dimension_name = "runtime_preference" ->
         [p EXCEPT !.runtime_preference = row.metadata, !.confidence = row.dimension_value]
    [] row.dimension_name = "directors" -> [p EXCEPT !.directors = row.metadata]
    [] OTHER -> p

ApiLoadRow(p, row) ==
  LET q == [p EXCEPT !.sample_size = row.sample_size]
  IN CASE row.dimension_name = "genre" ->
            [q EXCEPT !.genres = (row.dimension_value :> row.metadata) @@ q.genres]
       [] row.dimension_name = "era" ->
            [q EXCEPT !.eras = (row.dimension_value :> row.metadata) @@ q.eras]
       [] row.dimension_name = "theme" ->
            [q EXCEPT !.themes = Append(q.themes, row.dimension_value)]
       [] row.dimension_name = "director" ->
            [q EXCEPT !.directors = Append(q.directors, row.dimension_value)]
       [] row.dimension_name = "runtime_preference" ->
            [q EXCEPT !.runtime_preference = row.dimension_value,
                      !.confidence = row.metadata]
       [] OTHER -> q

\* loadTasteProfile over the rows of the taste_profile table: null when there
\* is no row, otherwise the defaults overwritten row by row.
loadTasteProfile(variant, rows) ==
  LET start == [NoProfile EXCEPT !.found = TRUE,
                  !.runtime_preference = IF variant = "worker" THEN "medium" ELSE ""]
      F[i \in 0..Len(rows)] ==
        IF i = 0 THEN start
        ELSE IF variant = "worker" THEN WorkerLoadRow(F[i - 1], rows[i])
             ELSE ApiLoadRow(F[i - 1], rows[i])
  IN IF rows = <<>> THEN NoProfile ELSE F[Len(rows)]

\* ------------------------------------------------------------ movies table
\* The rows of the movies table for the films imported so far, in rowid
\* order (the order a SELECT without ORDER BY walks them); id is the rowid.
TableRows(ms) == [i \in 1..Len(ms) |-> [id |-> i] @@ Films[ms[i]]]

\* allMovies.filter(m => !m.user_rating)
Unrated(rows) == SelectSeq(rows, LAMBDA m : m.user_rating = 0)

\* ------------------------------------------------------------ requests
\* What a caller may pass as options: mood "" , genre_filter <<>>, era_filter
\* "" and count 0 stand for an absent field.
OptionSet ==
  { [mood |-> "", genre_filter |-> <<>>, era_filter |-> "", count |-> 0],
    [mood |-> "", genre_filter |-> <<>>, era_filter |-> "", count |-> 1],
    [mood |-> "", genre_filter |-> <<>>, era_filter |-> "", count |-> 3],
    [mood |-> "", genre_filter |-> <<"Drama", "Comedy">>, era_filter |-> "", count |-> 3],
    [mood |-> "", genre_filter |-> <<>>, era_filter |-> "classic", count |-> 60],
    [mood |-> "dark", genre_filter |-> <<"Comedy">>, era_filter |-> "classic", count |-> 1] }

\* Math.min(options.count || DEFAULT_COUNT, MAX_COUNT)
EffectiveCount(options) ==
  Min(IF options.count = 0 THEN DEFAULT_COUNT ELSE options.count, MAX_COUNT)

GenreRank(g) == CHOOSE i \in 1..Len(AllGenres) : AllGenres[i] = g

\* Array.prototype.sort() of the genre filter (ascending, by name).
SortGenres(gs) ==
  LET F[i \in 0..Len(gs)] ==
        IF i = 0 THEN <<>>
        ELSE LET q == Cardinality({j \in 1..Len(F[i - 1]) :
                                     GenreRank(F[i - 1][j]) <= GenreRank(gs[i])})
             IN SubSeq(F[i - 1], 1, q) \o <<gs[i]>> \o SubSeq(F[i - 1], q + 1, Len(F[i - 1]))
  IN F[Len(gs)]

\* api buildCacheKey: `${mood}_${genres}_${era}`, the genres sorted; the
\* count is not part of the key.
buildCacheKey(options) ==
  << IF options.mood = "" THEN "any" ELSE options.mood,
     IF options.genre_filter = <<>> THEN <<"any">> ELSE SortGenres(options.genre_filter),
     IF options.era_filter = "" THEN "any" ELSE options.era_filter >>

\* worker context string: mood|genres|era|count, the genres as given.
WorkerContext(options) ==
  << IF options.mood = "" THEN "any" ELSE options.mood,
     IF options.genre_filter = <<>> THEN <<"all">> ELSE options.genre_filter,
     IF options.era_filter = "" THEN "all" ELSE options.era_filter,
     EffectiveCount(options) >>

ContextKey(variant, options) ==
  IF variant = "worker" THEN WorkerContext(options) ELSE buildCacheKey(options)

\* worker applyFilters
applyFilters(rows, options) ==
  LET byGenre ==
        IF options.genre_filter = <<>> THEN rows
        ELSE SelectSeq(rows, LAMBDA m :
               \E i \in 1..Len(options.genre_filter) :
                 options.genre_filter[i] \in Range(m.genres))
      inEra(m) ==
        CASE options.era_filter = "classic" -> m.year < 1980
          [] options.era_filter = "modern" -> m.year >= 1980 /\ m.year < 2010
          [] options.era_filter = "recent" -> m.year >= 2010
          [] OTHER -> TRUE
  IN IF options.era_filter = "" THEN byGenre ELSE SelectSeq(byGenre, inEra)

\* api filterByGenre
filterByGenre(rows, genreFilter) ==
  IF genreFilter = <<>> THEN rows
  ELSE SelectSeq(rows, LAMBDA m :
         \E i \in 1..Len(genreFilter) : genreFilter[i] \in Range(m.genres))

\* api filterByEra
filterByEra(rows, eraFilter) ==
  IF eraFilter = "" THEN rows
  ELSE SelectSeq(rows, LAMBDA m :
         CASE eraFilter = "classic" -> m.year < 2000
           [] eraFilter = "modern" -> m.year >= 2000 /\ m.year <= 2015
           [] eraFilter = "recent" -> m.year > 2015
           [] OTHER -> TRUE)

\* The candidate rows of a call: unrated and passing the filters.
Candidates(variant, rows, options) ==
  IF variant = "worker" THEN applyFilters(Unrated(rows), options)
  ELSE filterByEra(filterByGenre(Unrated(rows), options.genre_filter), options.era_filter)

\* ------------------------------------------------------------ scoring
\* NaN, what 0 / 0 evaluates to: no number of the scale.
NaN == 0 - 1

\* worker calculateBasicMatchScore, in units of 1/1200: the mean of the genre
\* factor (mean profile score of the film's genres), the era factor (profile
\* score of its decade) and the runtime factor (1 on a match, else 0.3).
\* The genres column of the worker is never NULL: the import binds
\* JSON.stringify of the genre list, "[]" when the list is empty, and a
\* non-empty string passes the test movie.genres; the genre factor of an
\* empty list is 0 / genres.length = 0 / 0, and so is the score.
calculateBasicMatchScore(m, profile) ==
  LET hasGenre == DOMAIN profile.genres # {}
      genreScore ==
        (12 * SumSeq([i \in 1..Len(m.genres) |-> Lookup(profile.genres, m.genres[i])]))
          \div Len(m.genres)
      hasEra == m.year # 0 /\ DOMAIN profile.eras # {}
      eraScore == 12 * Lookup(profile.eras, (m.year \div 10) * 10)
      hasRuntime == m.runtime_minutes # 0 /\ profile.runtime_preference # ""
      runtimeMatch ==
        IF \/ profile.runtime_preference = "short" /\ m.runtime_minutes < 90
           \/ profile.runtime_preference = "medium" /\ m.runtime_minutes >= 90
                /\ m.runtime_minutes <= 150
           \/ profile.runtime_preference = "long" /\ m.runtime_minutes > 150
        THEN 1200 ELSE 360
      score == (IF hasGenre THEN genreScore ELSE 0) + (IF hasEra THEN eraScore ELSE 0)
                 + (IF hasRuntime THEN runtimeMatch ELSE 0)
      factors == (IF hasGenre THEN 1 ELSE 0) + (IF hasEra THEN 1 ELSE 0)
                   + (IF hasRuntime THEN 1 ELSE 0)
  IN IF hasGenre /\ m.genres = <<>> THEN NaN
     ELSE IF factors > 0 THEN score \div factors ELSE 600

\* api calculateFallbackScore, in units of 1/1200: the mean of the genre
\* factor (mean of the positive profile scores of the film's genres) and
\* tmdb_rating / 10.
calculateFallbackScore(m, profile) ==
  LET genreScores ==
        SelectSeq([i \in 1..Len(m.genres) |-> Lookup(profile.genres, m.genres[i])],
                  LAMBDA s : s > 0)
      hasGenre == m.genres # <<>> /\ DOMAIN profile.genres # {} /\ genreScores # <<>>
      hasRating == m.tmdb_rating # 0
      score == (IF hasGenre THEN (12 * SumSeq(genreScores)) \div Len(genreScores) ELSE 0)
                 + (IF hasRating THEN 12 * m.tmdb_rating ELSE 0)
      factors == (IF hasGenre THEN 1 ELSE 0) + (IF hasRating THEN 1 ELSE 0)
  IN IF factors > 0 THEN score \div factors ELSE 600

\* The local match score of a film under either engine.
LocalScore(variant, m, profile) ==
  IF variant = "worker" THEN calculateBasicMatchScore(m, profile)
  ELSE calculateFallbackScore(m, profile)

\* parseFloat(s.toFixed(2)) of a score in units of 1/1200: the nearest
\* hundredth, in the same units.
ToFixed2(s) == IF s = NaN THEN NaN ELSE 12 * ((s + 6) \div 12)

\* parseFloat((1 - i * 0.05).toFixed(2)) for the index i (from 0), in units
\* of 1/1200.
RankScore(i) == 12 * (100 - 5 * i)

\* ------------------------------------------------------------ the oracle
\* An entry of the JSON array the model answers with, its score given in
\* hundredths and kept in units of 1/1200.  The api reads imdb_id,
\* match_score and reasoning; the worker reads title and reasoning.
Entry(film, score) ==
  [imdb_id |-> film, title |-> IF film \in DOMAIN Films THEN Films[film].title ELSE "Zulu",
   match_score |-> 12 * score, score_is_number |-> TRUE, reasoning |-> "because"]

\* What ai.run can come to: a rejection, an empty text, a text that is no
\* JSON, a JSON value that is no array, or an array of entries.  "tt9" is no
\* film of the table; tt5 is a rated one.
OracleResponses ==
  { [kind |-> "throw", entries |-> <<>>],
    [kind |-> "empty", entries |-> <<>>],
    [kind |-> "garbage", entries |-> <<>>],
    [kind |-> "object", entries |-> <<>>],
    [kind |-> "list", entries |-> <<>>],
    [kind |-> "list", entries |-> <<[Entry("tt1", 90) EXCEPT !.score_is_number = FALSE]>>],
    [kind |-> "list", entries |-> <<Entry("tt3", 95), Entry("tt1", 90)>>],
    [kind |-> "list", entries |-> <<Entry("tt2", 95), Entry("tt1", 90), Entry("tt3", 80),
                                    Entry("tt4", 70)>>],
    [kind |-> "list", entries |-> <<Entry("tt1", 95), Entry("tt9", 90)>>],
    [kind |-> "list", entries |-> <<Entry("tt9", 90)>>],
    [kind |-> "list", entries |-> <<Entry("tt5", 99), Entry("tt2", 80)>>] }

\* Answers of ai.run that keep the asked shape but not the asked content: a
\* match_score above 1, one below 0, and a ranking of LongRanking entries
\* (all naming the candidate Alpha) where the worker's prompt asks for 5.
LongRanking == 22

UnaskedResponses ==
  { [kind |-> "list", entries |-> <<Entry("tt1", 150), Entry("tt2", 80)>>],
    [kind |-> "list", entries |-> <<Entry("tt3", 0 - 20)>>],
    [kind |-> "list", entries |-> [i \in 1..LongRanking |-> Entry("tt1", 90)]] }

\* worker rankWithAI: null (ok = FALSE) when ai.run rejects or the text holds
\* no JSON array; otherwise one item per ranking, the first candidate with
\* that title, or null (<<>>) when no candidate has it.
rankWithAI(candidates, resp) ==
  IF resp.kind # "list" THEN [ok |-> FALSE, list |-> <<>>]
  ELSE [ok |-> TRUE,
        list |-> [i \in 1..Len(resp.entries) |->
                    FindTitle(candidates, resp.entries[i].title)]]

\* The diversity pass without the refill from backup: the films over the
\* cap are left out.
DiversifyWithoutRefill(recs, count) ==
  LET cap == CeilDiv(count, 3)
      primary(r) == IF Films[r.imdb_id].genres = <<>> THEN "undefined"
                    ELSE Films[r.imdb_id].genres[1]
  IN SelectSeq(recs, LAMBDA rec :
       Cardinality({j \in 1..Len(recs) : primary(recs[j]) = primary(rec)}) <= cap)

\* The diversity pass of the worker: a film is admitted unless its primary
\* genre has been admitted ceil(count / 3) times already, the others wait in
\* backup; then backup refills the list up to count.  The primary genre of
\* an empty genre list ("[]", which passes the test rec.movie.genres) is
\* undefined, a key of genreCounts like any other.
Diversify(recs, count) ==
  LET cap == CeilDiv(count, 3)
      primary(r) == IF Films[r.imdb_id].genres = <<>> THEN "undefined"
                    ELSE Films[r.imdb_id].genres[1]
      F[i \in 0..Len(recs)] ==
        IF i = 0 THEN [diversified |-> <<>>, backup |-> <<>>]
        ELSE LET prev == F[i - 1]
                 rec == recs[i]
                 seen == Cardinality({j \in 1..Len(prev.diversified) :
                            primary(prev.diversified[j]) = primary(rec)})
             IN IF seen < cap
                THEN [prev EXCEPT !.diversified = Append(@, rec)]
                ELSE [prev EXCEPT !.backup = Append(@, rec)]
      pass == F[Len(recs)]
      room == IF count > Len(pass.diversified) THEN count - Len(pass.diversified) ELSE 0
  IN pass.diversified \o Slice(pass.backup, room)

\* The worker from the answer of rankWithAI to the list it is about to
\* cache: the oracle's ranking when there is one, else the scored ranking,
\* cut to count, then the diversity pass.  threw is the TypeError of reading
\* .movie of a null item.
WorkerCompute(scored, resp, count) ==
  LET topCandidates == [i \in 1..Min(50, Len(scored)) |-> scored[i].movie]
      aiRanked == rankWithAI(topCandidates, resp)
      useAi == aiRanked.ok /\ Len(aiRanked.list) > 0
      cut == Slice(aiRanked.list, count)
      threw == useAi /\ \E i \in 1..Len(cut) : cut[i] = <<>>
      recs == IF useAi
              THEN [i \in 1..Len(cut) |->
                      [imdb_id |-> cut[i][1].imdb_id, match_score |-> RankScore(i - 1)]]
              ELSE [i \in 1..Min(count, Len(scored)) |->
                      [imdb_id |-> scored[i].movie.imdb_id,
                       match_score |-> ToFixed2(scored[i].score)]]
  IN [threw |-> threw, ai_powered |-> useAi,
      recs |-> IF threw THEN <<>> ELSE Diversify(recs, count)]

\* api generateWithAI after ai.run: it throws on a rejection, an empty or
\* unparsable text, a value that is no array, an empty array, or when no
\* entry has an imdb_id, a numeric match_score and a reasoning; otherwise it
\* returns the entries that have them, all of them.
generateWithAI(resp) ==
  LET validated == SelectSeq(resp.entries, LAMBDA e :
                     e.imdb_id # "" /\ e.score_is_number /\ e.reasoning # "")
  IN IF resp.kind # "list" \/ resp.entries = <<>> \/ validated = <<>>
     THEN [threw |-> TRUE, recs |-> <<>>]
     ELSE [threw |-> FALSE,
           recs |-> [i \in 1..Len(validated) |->
                      [imdb_id |-> validated[i].imdb_id,
                       match_score |-> validated[i].match_score]]]

\* api generateFallback: the candidates scored, sorted by score, cut to count.
generateFallback(candidates, profile, count) ==
  LET scored == [i \in 1..Len(candidates) |->
                  [imdb_id |-> candidates[i].imdb_id,
                   match_score |-> calculateFallbackScore(candidates[i], profile)]]
  IN Slice(SortDesc(scored, [i \in 1..Len(scored) |-> scored[i].match_score]), count)

\* The api from the answer of ai.run to aiRecommendations.
ApiCompute(candidates, profile, resp, count) ==
  LET ai == generateWithAI(resp)
  IN [ai_powered |-> ~ai.threw,
      recs |-> IF ai.threw THEN generateFallback(candidates, profile, count) ELSE ai.recs]

\* The join with the movies table both api paths end in: an entry stays when
\* a row of the table has its imdb_id.
JoinMovies(recs, ms) == SelectSeq(recs, LAMBDA r : r.imdb_id \in Range(ms))

\* ------------------------------------------------------------ the cache
\* datetime('now') and CURRENT_TIMESTAMP, "YYYY-MM-DD HH:MM:SS", as the day,
\* the character between date and time (a space, code 32) and the hour.
SqlDatetime(t) == <<t \div 24, 32, t % 24>>

\* Date.prototype.toISOString, "YYYY-MM-DDTHH:MM:SS.sssZ": the character
\* between date and time is a T (code 84).
IsoString(t) == <<t \div 24, 84, t % 24>>

\* a > b for two TEXT values of the forms above, as SQLite compares TEXT:
\* character by character.
TextGreater(a, b) ==
  \/ a[1] > b[1]
  \/ a[1] = b[1] /\ a[2] > b[2]
  \/ a[1] = b[1] /\ a[2] = b[2] /\ a[3] > b[3]

\* expires_at of a row inserted at hour t.
ExpiresAt(variant, t) ==
  IF variant = "worker" THEN IsoString(t + CACHE_EXPIRY_HOURS)
  ELSE SqlDatetime(t + CACHE_DURATION_HOURS)

\* The lookup with the comparison turned round (expires_at < now): it
\* finds the expired rows of the context.
CacheLookupExpired(rows, key, t) ==
  {i \in 1..Len(rows) :
     rows[i].context = key /\ TextGreater(SqlDatetime(t), rows[i].expires_at)}

\* The lookup without ORDER BY created_at DESC: any unexpired row of the
\* context.
CacheLookupUnordered(rows, key, t) ==
  {i \in 1..Len(rows) :
     rows[i].context = key /\ TextGreater(rows[i].expires_at, SqlDatetime(t))}

\* The rows SELECT ... WHERE context = ? AND expires_at > datetime('now')
\* ORDER BY created_at DESC LIMIT 1 can return: the unexpired rows of the
\* context with the latest created_at.
CacheLookup(rows, key, t) ==
  LET live == {i \in 1..Len(rows) :
                 rows[i].context = key /\ TextGreater(rows[i].expires_at, SqlDatetime(t))}
  IN {i \in live : \A j \in live : ~TextGreater(rows[j].created_at, rows[i].created_at)}

\* What a cache hit returns.  api checkCache: the stored entries joined with
\* the movies table, cut to count.  worker: the first count stored rowids,
\* each fetched from the movies table, scored 1 - i * 0.05.
CacheHitResult(variant, row, ms, count) ==
  IF variant = "worker"
  THEN LET ids == Slice(row.recommended_movie_ids, count)
           found == SelectSeq(ids, LAMBDA id : id \in 1..Len(ms))
       IN [i \in 1..Len(found) |->
             [imdb_id |-> ms[found[i]], match_score |-> RankScore(i - 1)]]
  ELSE Slice(JoinMovies(row.recommended_movie_ids, ms), count)

\* The value bound to recommended_movie_ids: the api stores aiRecommendations
\* (imdb_id and match_score), the worker the rowids of the diversified list.
CachePayload(variant, recs, ms) ==
  IF variant = "worker"
  THEN [j \in 1..Len(recs) |-> CHOOSE i \in 1..Len(ms) : ms[i] = recs[j].imdb_id]
  ELSE recs

\* ------------------------------------------------------------ filmAttributes.js
\* The ids of FILM_ATTRIBUTES, in order.
FILM_ATTRIBUTES == <<"action", "drama", "comedy", "dark", "uplifting", "artistic">>

\* The first three of SAMPLE_MOVIES by id (Mad Max: Fury Road, The Shawshank
\* Redemption, Superbad), attribute scores in hundredths.
MOVIE_MAP ==
  [m \in {"movie-1", "movie-2", "movie-3"} |->
     CASE m = "movie-1" -> [action |-> 95, drama |-> 40, comedy |-> 10, dark |-> 70,
                            uplifting |-> 50, artistic |-> 85]
       [] m = "movie-2" -> [action |-> 20, drama |-> 100, comedy |-> 15, dark |-> 60,
                            uplifting |-> 90, artistic |-> 70]
       [] m = "movie-3" -> [action |-> 30, drama |-> 40, comedy |-> 95, dark |-> 20,
                            uplifting |-> 70, artistic |-> 30]]

\* Movie.getAttributeScore: this.attributes[id] || 0
getAttributeScore(movie, id) == IF id \in DOMAIN movie THEN movie[id] ELSE 0

\* Scores are counted in tenths of a point, so that 2.5 can be handed in:
\* Number.isInteger(score), and the range check of addRating and of Rating.
IsInteger(score) == score % 10 = 0
ValidScore(score) == IsInteger(score) /\ ~(score < 10) /\ ~(score > 50)

\* new Rating(movieId, userId, score) (the timestamp is left out)
Rating(movieId, userId, score) == [movieId |-> movieId, userId |-> userId, score |-> score]

\* ------------------------------------------------------------ tasteProfileEngine.js
\* A dimension value is the quotient num / den, in hundredths.
Value(num, den) == [num |-> num, den |-> den]

\* attributeSums[attr] and attributeWeights[attr] after the loop over the
\* ratings: ratings of movies missing from the map are skipped.
attributeSums(rs, movieMap, attr) ==
  LET known == SelectSeq(rs, LAMBDA r : r.movieId \in DOMAIN movieMap)
  IN SumSeq([i \in 1..Len(known) |->
               getAttributeScore(movieMap[known[i].movieId], attr) * known[i].score])

\* The divisor of a plain average: the number of ratings of known movies,
\* in tenths like the scores.
attributeCounts(rs, movieMap, attr) ==
  10 * Len(SelectSeq(rs, LAMBDA r : r.movieId \in DOMAIN movieMap))

attributeWeights(rs, movieMap, attr) ==
  LET known == SelectSeq(rs, LAMBDA r : r.movieId \in DOMAIN movieMap)
  IN SumSeq([i \in 1..Len(known) |-> known[i].score])

getNeutralProfile == [a \in Range(FILM_ATTRIBUTES) |-> Value(50, 1)]

calculateTasteProfile(rs, movieMap) ==
  IF Len(rs) = 0 THEN getNeutralProfile
  ELSE [a \in Range(FILM_ATTRIBUTES) |->
          IF attributeWeights(rs, movieMap, a) > 0
          THEN Value(attributeSums(rs, movieMap, a), attributeWeights(rs, movieMap, a))
          ELSE Value(50, 1)]

\* Math.sqrt on whole numbers: the largest whole number whose square is at
\* most n.
RECURSIVE SqrtBetween(_, _, _)
SqrtBetween(n, lo, hi) ==
  IF lo >= hi THEN lo
  ELSE LET mid == (lo + hi + 1) \div 2
       IN IF mid * mid <= n THEN SqrtBetween(n, mid, hi) ELSE SqrtBetween(n, lo, mid - 1)

Sqrt(n) == SqrtBetween(n, 0, 46340)

\* profile[attr.id] || 0 in tenths: an attribute the object lacks counts 0.
AttributeOf(profile, a) == IF a \in DOMAIN profile THEN profile[a] ELSE 0

\* The bare dot product of two attribute vectors, in thousandths.
dotProductOnly(profileA, profileB) ==
  10 * SumSeq([i \in 1..Len(FILM_ATTRIBUTES) |->
                 AttributeOf(profileA, FILM_ATTRIBUTES[i]) * AttributeOf(profileB, FILM_ATTRIBUTES[i])])

\* calculateCosineSimilarity over attribute values in tenths: the sums of
\* products are in hundredths, the magnitudes in thousandths of a tenth, the
\* quotient in thousandths (1.0 = 1000); 0 when a magnitude is 0.
calculateCosineSimilarity(profileA, profileB) ==
  LET n == Len(FILM_ATTRIBUTES)
      a(i) == AttributeOf(profileA, FILM_ATTRIBUTES[i])
      b(i) == AttributeOf(profileB, FILM_ATTRIBUTES[i])
      dotProduct == SumSeq([i \in 1..n |-> a(i) * b(i)])
      magnitudeA == Sqrt(1000000 * SumSeq([i \in 1..n |-> a(i) * a(i)]))
      magnitudeB == Sqrt(1000000 * SumSeq([i \in 1..n |-> b(i) * b(i)]))
  IN IF magnitudeA = 0 \/ magnitudeB = 0 THEN 0
     ELSE (1000000 * dotProduct) \div ((magnitudeA * magnitudeB) \div 1000)

\* ------------------------------------------------------------ dataStore.js
\* The user of the store, and another user whose ratings share the storage.
UserId == "default-user"
OtherUser == "guest"

\* Map.set and Map.delete on the entries of this.ratings.
MapSet(entries, rating) ==
  IF \E i \in 1..Len(entries) : entries[i].movieId = rating.movieId
  THEN [i \in 1..Len(entries) |->
          IF entries[i].movieId = rating.movieId THEN rating ELSE entries[i]]
  ELSE Append(entries, rating)

MapDelete(entries, movieId) == SelectSeq(entries, LAMBDA r : r.movieId # movieId)

\* localStorage without the key, and with the data save() writes.
NoItem == [present |-> FALSE, ratings |-> <<>>]
Item(rs) == [present |-> TRUE, ratings |-> rs]

\* The data save() hands to setItem: the other users' ratings of the stored
\* data, then the ratings of the Map.
SaveData(stored, userId, entries) ==
  Item(SelectSeq(stored.ratings, LAMBDA r : r.userId # userId) \o entries)

\* save(): setItem stores the data, or throws and the storage stays as it is.
save(stored, userId, entries, ok) ==
  IF ok THEN SaveData(stored, userId, entries) ELSE stored

\* The loop of load(): each stored rating of the user is set into the Map; a
\* rating the Rating constructor rejects is skipped.
RECURSIVE LoadInto(_, _)
LoadInto(entries, rs) ==
  IF rs = <<>> THEN entries
  ELSE LoadInto(IF ValidScore(Head(rs).score) THEN MapSet(entries, Head(rs)) ELSE entries,
                Tail(rs))

\* load() without the filter on the user: every stored rating is set into
\* the Map.
loadAll(stored, userId) ==
  IF ~stored.present THEN <<>> ELSE LoadInto(<<>>, stored.ratings)

\* load() in the constructor of a new store.
load(stored, userId) ==
  IF ~stored.present THEN <<>>
  ELSE LoadInto(<<>>, SelectSeq(stored.ratings, LAMBDA r : r.userId = userId))

\* _getEmptyProfile
GetEmptyProfile == [a \in Range(FILM_ATTRIBUTES) |-> Value(0, 1)]

\* The data of getTasteProfile()
getTasteProfile(entries) ==
  IF Len(entries) = 0 THEN GetEmptyProfile
  ELSE [a \in Range(FILM_ATTRIBUTES) |->
          IF attributeWeights(entries, MOVIE_MAP, a) > 0
          THEN Value(attributeSums(entries, MOVIE_MAP, a), attributeWeights(entries, MOVIE_MAP, a))
          ELSE Value(0, 1)]

\* The data of a call that returns no profile, and the answer of the
\* constructor.
NoData == [a \in Range(FILM_ATTRIBUTES) |-> Value(0, 0)]
NoAnswer ==
  [op |-> "new", movieId |-> "", score |-> 0, success |-> TRUE, data |-> NoData, tick |-> 0]

\* No second store has been constructed.
NoSecond ==
  [open |-> FALSE, ratings |-> <<>>,
   answer |-> [op |-> "none", movieId |-> "", success |-> TRUE, tick |-> 0]]

\* ------------------------------------------------------------ state
VARIABLES
  impl,             \* "api" or "worker": the engine that is deployed
  movies,           \* movies table: the imdb_ids of its rows, in rowid order
  taste_profile,    \* taste_profile table: its rows, in rowid order
  inflight,         \* INSERTs into taste_profile issued and not yet run
  recommendations,  \* recommendations table (the cache): its rows
  now,              \* the clock, in hours
  req,              \* the generateRecommendations calls
  calc,             \* the calculateTasteProfile calls
  replace,          \* history: the replacement of the stored profile under way
  ratings,          \* UserDataStore.ratings: the entries of the Map, in insertion order
  localStorage,     \* the browser's value under STORAGE_KEY
  answer,           \* what the last call on the store returned
  added,            \* per movie, the score of the last successful addRating
  second,           \* a second UserDataStore of the same user over the same storage
  probe             \* a rating history and the dimension scores computed from it

\* The variables of the browser side and of the score computations; the
\* database, the engine's calls and the clock make up the server side.
clientVars == <<ratings, localStorage, answer, added, second>>
serverVars == <<impl, movies, taste_profile, inflight, recommendations, now, req, calc, replace>>
vars == <<serverVars, clientVars, probe>>

\* The callers of the two exported functions.
Calls == {"r1"}
Calcs == {"c1"}

NoResult == [status |-> "none", recommendations |-> <<>>, cached |-> FALSE]

\* A call that has not started.  Besides the locals of generateRecommendations
\* the record keeps history the properties read: ratedAtCall (the rated films
\* when the call began), sawWhole (the profile read was the whole previous or
\* the whole new one of a replacement under way, or none was under way), path,
\* hit (the cache row served), lookupAt and lookupLen (clock and cache size at
\* the lookup), resp (the oracle's answer) and saveFailed.
IdleReq ==
  [pc |-> "idle", options |-> CHOOSE o \in OptionSet : o.count = 0, count |-> 0,
   profile |-> NoProfile, candidates |-> <<>>, recs |-> <<>>, out |-> <<>>,
   result |-> NoResult,
   ratedAtCall |-> {}, sawWhole |-> TRUE, path |-> "none", hit |-> 0, lookupAt |-> 0,
   lookupLen |-> 0, resp |-> [kind |-> "none", entries |-> <<>>], saveFailed |-> FALSE]

IdleCalc ==
  [pc |-> "idle", profile |-> NoProfile, k |-> 0, result |-> "none", sample_size |-> 0,
   required |-> 0]

\* The rows a completed calculateTasteProfile leaves in the table.
StoredRows(variant, taste, sampleSize) ==
  LET steps == StoreSteps(variant, BuildProfile(variant, taste, sampleSize))
  IN [i \in 1..Len(steps) |-> steps[i].row]

\* The replacement under way, or none once its last INSERT has run.
Replacing(active, old, new) ==
  IF active THEN [active |-> TRUE, old |-> old, new |-> new]
  ELSE [active |-> FALSE, old |-> NoProfile, new |-> NoProfile]

\* No rating history has been handed to the score computations.
NoProbe == [pc |-> "none"]

\* The page has not been opened: no store, nothing in the storage.
Unopened ==
  /\ ratings = <<>>
  /\ localStorage = NoItem
  /\ answer = NoAnswer
  /\ added = [m \in DOMAIN MOVIE_MAP |-> 0]
  /\ second = NoSecond

Quiet ==
  /\ inflight = {}
  /\ recommendations = <<>>
  /\ now = 0
  /\ req = [r \in Calls |-> IdleReq]
  /\ calc = [c \in Calcs |-> IdleCalc]
  /\ replace = Replacing(FALSE, NoProfile, NoProfile)

\* Two calls of generateRecommendations that can be under way at once.
Callers == {"r1", "r2"}

\* The database with a stored profile and no cache row, before two
\* concurrent callers.
InitConcurrent ==
  /\ impl \in {"api", "worker"}
  /\ movies = SeedMovies \o <<"tt5">>
  /\ taste_profile \in {StoredRows(impl, taste, OtherRated + 1) : taste \in Tastes}
  /\ inflight = {}
  /\ recommendations = <<>>
  /\ now = 0
  /\ req = [r \in Callers |-> IdleReq]
  /\ calc = [c \in Calcs |-> IdleCalc]
  /\ replace = Replacing(FALSE, NoProfile, NoProfile)
  /\ Unopened
  /\ probe = NoProbe

\* Two calls of calculateTasteProfile that can be under way at once.
Calculators == {"c1", "c2"}

\* The database with enough rated rows and no profile yet, or the profile of
\* an earlier calculateTasteProfile, before two concurrent calls.
InitRecalc ==
  /\ impl \in {"api", "worker"}
  /\ movies = SeedMovies \o <<"tt5">>
  /\ taste_profile \in
       {<<>>} \cup {StoredRows(impl, taste, OtherRated + 1) : taste \in Tastes}
  /\ inflight = {}
  /\ recommendations = <<>>
  /\ now = 0
  /\ req = [r \in Calls |-> IdleReq]
  /\ calc = [c \in Calculators |-> IdleCalc]
  /\ replace = Replacing(FALSE, NoProfile, NoProfile)
  /\ Unopened
  /\ probe = NoProbe

\* A database after the import of the first films and of enough rated rows:
\* either no profile has been computed yet, or a calculateTasteProfile has
\* run to its end (a state InitProfile below leads to).
Init ==
  /\ impl \in {"api", "worker"}
  /\ movies = SeedMovies \o <<"tt5">>
  /\ taste_profile \in
       {<<>>} \cup {StoredRows(impl, taste, OtherRated + 1) : taste \in Tastes}
  /\ Quiet
  /\ Unopened
  /\ probe = NoProbe

\* The database before the rated film tt5 is imported: one rated row short
\* of a profile.
InitProfile ==
  /\ impl \in {"api", "worker"}
  /\ movies = SeedMovies
  /\ taste_profile = <<>>
  /\ Quiet
  /\ Unopened
  /\ probe = NoProbe

\* ------------------------------------------------------------ environment
\* An import inserts one more film; its user_rating comes with it.
ImportMovie(k) ==
  /\ k \in DOMAIN Films \ Range(movies)
  /\ movies' = Append(movies, k)
  /\ UNCHANGED <<clientVars, probe, impl, taste_profile, inflight, recommendations, now, req, calc, replace>>

Tick ==
  /\ now + TickHours <= MaxClock
  /\ now' = now + TickHours
  /\ UNCHANGED <<clientVars, probe, impl, movies, taste_profile, inflight, recommendations, req, calc, replace>>

\* ------------------------------------------------------------ calculateTasteProfile
\* Whether the INSERT of row breaks the UNIQUE constraint of the table:
\* dimension_name in the worker schema, (dimension_name, dimension_value) in
\* the api schema.
UniqueClash(variant, rows, row) ==
  \E i \in 1..Len(rows) :
    /\ rows[i].dimension_name = row.dimension_name
    /\ variant = "api" => rows[i].dimension_value = row.dimension_value

\* The first awaited INSERT at or after step k, or one past the last step.
NextAwaited(steps, k) ==
  LET js == {j \in k..Len(steps) : steps[j].awaited}
  IN IF js = {} THEN Len(steps) + 1 ELSE CHOOSE j \in js : \A i \in js : j <= i

\* The rows of the INSERTs issued without await at steps k..j-1.
Issued(steps, k, j) == {steps[i].row : i \in k..(j - 1)}

\* The rows SELECT ... FROM movies WHERE user_rating IS NOT NULL returns,
\* counted.
RatedCount(ms) ==
  OtherRated + Cardinality({i \in 1..Len(ms) : Films[ms[i]].user_rating # 0})

\* calculateTasteProfile without the minimum-sample check: it builds and
\* stores a profile from any number of rated movies.
CalcBeginUnchecked(c) ==
  /\ calc[c].pc = "idle"
  /\ inflight = {}
  /\ \E taste \in Tastes :
       calc' = [calc EXCEPT ![c] =
                  [@ EXCEPT !.pc = "delete", !.sample_size = RatedCount(movies),
                     !.profile = BuildProfile(impl, taste, RatedCount(movies))]]
  /\ UNCHANGED <<clientVars, probe, impl, movies, taste_profile, inflight, recommendations, now, req, replace>>

\* The rated rows are counted; below MIN_SAMPLE_SIZE the call returns the
\* insufficient-data result, otherwise it builds the profile.  (A call is
\* taken to arrive after the unawaited INSERTs of the call before it have
\* run.)
CalcBegin(c) ==
  /\ calc[c].pc = "idle"
  /\ inflight = {}
  /\ LET n == RatedCount(movies)
     IN IF n < MIN_SAMPLE_SIZE
        THEN calc' = [calc EXCEPT ![c] = [@ EXCEPT !.pc = "done", !.result = "insufficient",
                                                   !.sample_size = n,
                                                   !.required = MIN_SAMPLE_SIZE]]
        ELSE \E taste \in Tastes :
               calc' = [calc EXCEPT ![c] = [@ EXCEPT !.pc = "delete", !.sample_size = n,
                                              !.profile = BuildProfile(impl, taste, n)]]
  /\ UNCHANGED <<clientVars, probe, impl, movies, taste_profile, inflight, recommendations, now, req, replace>>

\* DELETE FROM taste_profile runs; the call goes on to its first awaited
\* INSERT, issuing on the way the INSERTs it does not wait for.
CalcDelete(c) ==
  /\ calc[c].pc = "delete"
  /\ LET steps == StoreSteps(impl, calc[c].profile)
         j == NextAwaited(steps, 1)
     IN /\ taste_profile' = <<>>
        /\ inflight' = inflight \cup Issued(steps, 1, j)
        /\ calc' = [calc EXCEPT ![c] = [@ EXCEPT !.pc = "insert", !.k = j]]
        /\ replace' = Replacing(TRUE, loadTasteProfile(impl, taste_profile),
                                 loadTasteProfile(impl, [i \in 1..Len(steps) |-> steps[i].row]))
  /\ UNCHANGED <<clientVars, probe, impl, movies, recommendations, now, req>>

\* The awaited INSERT of step k runs.  On a UNIQUE clash the call throws;
\* otherwise it goes on to its next awaited INSERT, or returns the profile
\* when there is none left.
CalcInsert(c) ==
  /\ calc[c].pc = "insert"
  /\ LET steps == StoreSteps(impl, calc[c].profile)
         k == calc[c].k
         j == NextAwaited(steps, k + 1)
     IN IF UniqueClash(impl, taste_profile, steps[k].row)
        THEN /\ calc' = [calc EXCEPT ![c] = [@ EXCEPT !.pc = "done", !.result = "exception"]]
             /\ UNCHANGED <<taste_profile, inflight>>
             /\ replace' = Replacing(FALSE, replace.old, replace.new)
        ELSE /\ taste_profile' = Append(taste_profile, steps[k].row)
             /\ inflight' = inflight \cup Issued(steps, k + 1, j)
             /\ calc' = [calc EXCEPT ![c] =
                           IF j > Len(steps) THEN [@ EXCEPT !.pc = "done", !.result = "ok"]
                           ELSE [@ EXCEPT !.k = j]]
             /\ replace' = Replacing(~(j > Len(steps) /\ inflight' = {}),
                                      replace.old, replace.new)
  /\ UNCHANGED <<clientVars, probe, impl, movies, recommendations, now, req>>

\* An INSERT nobody waits for runs; a UNIQUE clash rejects it unseen.
LandInsert(row) ==
  /\ row \in inflight
  /\ inflight' = inflight \ {row}
  /\ taste_profile' = IF UniqueClash(impl, taste_profile, row) THEN taste_profile
                      ELSE Append(taste_profile, row)
  /\ replace' = Replacing(replace.active /\ ~(inflight' = {} /\
                             \A c \in DOMAIN calc : calc[c].pc \notin {"delete", "insert"}),
                          replace.old, replace.new)
  /\ UNCHANGED <<clientVars, probe, impl, movies, recommendations, now, req, calc>>

CalcReturn(c) ==
  /\ calc[c].pc = "done"
  /\ calc' = [calc EXCEPT ![c] = IdleCalc]
  /\ UNCHANGED <<clientVars, probe, impl, movies, taste_profile, inflight, recommendations, now, req, replace>>

\* ------------------------------------------------------------ generateRecommendations
Rated(ms) == {ms[i] : i \in {j \in 1..Len(ms) : Films[ms[j]].user_rating # 0}}

\* The call starts: count is fixed and the stored profile is read.  Without
\* a profile the call returns the no-profile result.
Begin(r, options) ==
  /\ req[r].pc = "idle"
  /\ LET profile == loadTasteProfile(impl, taste_profile)
         started == [req[r] EXCEPT !.options = options, !.count = EffectiveCount(options),
                       !.profile = profile, !.ratedAtCall = Rated(movies),
                       !.sawWhole = replace.active => profile \in {replace.old, replace.new}]
     IN req' = [req EXCEPT ![r] =
                  IF profile.found THEN [started EXCEPT !.pc = "cache"]
                  ELSE [started EXCEPT !.pc = "done",
                          !.result = [status |-> "no_profile", recommendations |-> <<>>,
                                      cached |-> FALSE]]]
  /\ UNCHANGED <<clientVars, probe, impl, movies, taste_profile, inflight, recommendations, now, calc, replace>>

\* The cache is looked up under the context key.  A live row is returned as
\* the result (cached = true); without one the call goes on.
CheckCache(r) ==
  /\ req[r].pc = "cache"
  /\ LET key == ContextKey(impl, req[r].options)
         rows == CacheLookup(recommendations, key, now)
         seen == [req[r] EXCEPT !.lookupAt = now, !.lookupLen = Len(recommendations)]
     IN IF rows = {}
        THEN req' = [req EXCEPT ![r] = [seen EXCEPT !.pc = "select"]]
        ELSE \E i \in rows :
               req' = [req EXCEPT ![r] =
                 [seen EXCEPT !.pc = "done", !.hit = i, !.path = "cache",
                    !.result = [status |-> "ok", cached |-> TRUE,
                                recommendations |->
                                  CacheHitResult(impl, recommendations[i], movies, req[r].count)]]]
  /\ UNCHANGED <<clientVars, probe, impl, movies, taste_profile, inflight, recommendations, now, calc, replace>>

\* The candidate step without the check for an empty candidate list: the call
\* goes on to the oracle whatever the filters left.
SelectUnchecked(r) ==
  /\ req[r].pc = "select"
  /\ LET cands == Candidates(impl, TableRows(movies), req[r].options)
     IN req' = [req EXCEPT ![r] =
                  [@ EXCEPT !.pc = "oracle",
                     !.candidates = [i \in 1..Len(cands) |-> cands[i].imdb_id]]]
  /\ UNCHANGED <<clientVars, probe, impl, movies, taste_profile, inflight, recommendations, now, calc, replace>>

\* The movies table is read and filtered.  Without a candidate the call
\* returns the no-candidates result; otherwise the candidates are put in the
\* order the engine hands them on in (worker: by local score; api: by
\* tmdb_rating, the in-place sort of generateWithAI) and ai.run is called.
Select(r) ==
  /\ req[r].pc = "select"
  /\ LET cands == Candidates(impl, TableRows(movies), req[r].options)
         ordered ==
           IF impl = "worker"
           THEN SortDesc(cands, [i \in 1..Len(cands) |->
                           calculateBasicMatchScore(cands[i], req[r].profile)])
           ELSE SortDesc(cands, [i \in 1..Len(cands) |-> cands[i].tmdb_rating])
     IN req' = [req EXCEPT ![r] =
                  IF cands = <<>>
                  THEN [@ EXCEPT !.pc = "done",
                          !.result = [status |-> "no_candidates", recommendations |-> <<>>,
                                      cached |-> FALSE]]
                  ELSE [@ EXCEPT !.pc = "oracle",
                          !.candidates = [i \in 1..Len(ordered) |-> ordered[i].imdb_id]]]
  /\ UNCHANGED <<clientVars, probe, impl, movies, taste_profile, inflight, recommendations, now, calc, replace>>

\* The candidate rows of a call that is waiting for the oracle.
CandidateRows(r) ==
  [j \in 1..Len(req[r].candidates) |->
     [id |-> CHOOSE i \in 1..Len(movies) : movies[i] = req[r].candidates[j]]
       @@ Films[req[r].candidates[j]]]

\* ai.run settles with resp.  The engine computes the list it will return
\* (out) and the list it will cache (recs) and issues the cache INSERT; the
\* worker throws when the oracle's ranking holds an item that matches no
\* candidate.
OracleRespond(r, resp) ==
  /\ req[r].pc = "oracle"
  /\ resp \in OracleResponses \cup UnaskedResponses
  /\ LET rows == CandidateRows(r)
         w == WorkerCompute([i \in 1..Len(rows) |->
                  [movie |-> rows[i],
                   score |-> calculateBasicMatchScore(rows[i], req[r].profile)]],
                resp, req[r].count)
         a == ApiCompute(rows, req[r].profile, resp, req[r].count)
         heard == [req[r] EXCEPT !.resp = resp]
     IN req' = [req EXCEPT ![r] =
          IF impl = "worker"
          THEN IF w.threw
               THEN [heard EXCEPT !.pc = "done", !.path = "oracle",
                       !.result = [status |-> "exception", recommendations |-> <<>>,
                                   cached |-> FALSE]]
               ELSE [heard EXCEPT !.pc = "save", !.recs = w.recs, !.out = w.recs,
                       !.path = IF w.ai_powered THEN "oracle" ELSE "fallback"]
          ELSE [heard EXCEPT !.pc = "save", !.recs = a.recs,
                  !.out = JoinMovies(a.recs, movies),
                  !.path = IF a.ai_powered THEN "oracle" ELSE "fallback"]]
  /\ UNCHANGED <<clientVars, probe, impl, movies, taste_profile, inflight, recommendations, now, calc, replace>>

\* The cache row of a call: the columns the INSERT binds, and as history the
\* hour it was written at, the count of the call and the ids it returned.
CacheRow(r) ==
  [context |-> ContextKey(impl, req[r].options),
   recommended_movie_ids |-> CachePayload(impl, req[r].recs, movies),
   confidence_score |-> req[r].profile.confidence,
   expires_at |-> ExpiresAt(impl, now),
   created_at |-> SqlDatetime(now),
   written |-> now,
   count |-> req[r].count,
   returned |-> [i \in 1..Len(req[r].out) |-> req[r].out[i].imdb_id]]

\* The cache INSERT runs or fails (it fails for certain once the table holds
\* MaxCache rows for each call that can be under way).  The worker logs a failure and returns its list; the api
\* lets it propagate to the caller.
SaveToCache(r, ok) ==
  /\ req[r].pc = "save"
  /\ ok => Len(recommendations) < MaxCache * Cardinality(DOMAIN req)
  /\ recommendations' = IF ok THEN Append(recommendations, CacheRow(r)) ELSE recommendations
  /\ req' = [req EXCEPT ![r] =
       IF ok \/ impl = "worker"
       THEN [@ EXCEPT !.pc = "done", !.saveFailed = ~ok,
               !.result = [status |-> "ok", recommendations |-> req[r].out, cached |-> FALSE]]
       ELSE [@ EXCEPT !.pc = "done", !.saveFailed = TRUE,
               !.result = [status |-> "exception", recommendations |-> <<>>,
                           cached |-> FALSE]]]
  /\ UNCHANGED <<clientVars, probe, impl, movies, taste_profile, inflight, now, calc, replace>>

\* The caller has its result; the call is over.
Return(r) ==
  /\ req[r].pc = "done"
  /\ req' = [req EXCEPT ![r] = IdleReq]
  /\ UNCHANGED <<clientVars, probe, impl, movies, taste_profile, inflight, recommendations, now, calc, replace>>

\* ------------------------------------------------------------ UserDataStore
\* What a call returned: the call, its arguments, success, and the profile
\* where it returns one.  tick changes with every call.
Answer(op, movieId, score, success, data) ==
  [op |-> op, movieId |-> movieId, score |-> score, success |-> success, data |-> data,
   tick |-> 1 - answer.tick]

\* The movie ids and scores the store is called with: two movies of the
\* catalog and an unknown one; 1 and 5, and 0, 2.5 and 6.
MovieIds == {"movie-1", "movie-3", "movie-404"}
Scores == {0, 10, 25, 50, 60}

\* A browser that has not run the page yet, or holds another user's rating;
\* a new store has loaded from it.  The server side takes no part.
InitStore ==
  /\ impl = "worker"
  /\ movies = SeedMovies
  /\ taste_profile = <<>>
  /\ Quiet
  /\ localStorage \in {NoItem, Item(<<Rating("movie-2", OtherUser, 40)>>)}
  /\ ratings = load(localStorage, UserId)
  /\ answer = NoAnswer
  /\ added = [m \in DOMAIN MOVIE_MAP |-> 0]
  /\ second = NoSecond
  /\ probe = NoProbe

\* addRating with the score brought into range instead of rejected: rounded
\* down to a whole point, then held between 1 and 5.
AddRatingClamped(movieId, score, ok) ==
  /\ LET whole == 10 * (score \div 10)
         clamped == IF whole < 10 THEN 10 ELSE IF whole > 50 THEN 50 ELSE whole
     IN IF movieId \notin DOMAIN MOVIE_MAP
        THEN /\ answer' = Answer("addRating", movieId, score, FALSE, NoData)
             /\ UNCHANGED <<ratings, localStorage, added>>
        ELSE /\ ratings' = MapSet(ratings, Rating(movieId, UserId, clamped))
             /\ localStorage' = save(localStorage, UserId, ratings', ok)
             /\ answer' = Answer("addRating", movieId, score, ok, NoData)
             /\ added' = IF ok THEN [added EXCEPT ![movieId] = clamped] ELSE added
  /\ UNCHANGED <<serverVars, probe, second>>

\* addRating(movieId, score); ok tells whether setItem stores the data.
AddRating(movieId, score, ok) ==
  /\ IF ~IsInteger(score) \/ score < 10 \/ score > 50
     THEN /\ answer' = Answer("addRating", movieId, score, FALSE, NoData)
          /\ UNCHANGED <<ratings, localStorage, added>>
     ELSE IF movieId \notin DOMAIN MOVIE_MAP
     THEN /\ answer' = Answer("addRating", movieId, score, FALSE, NoData)
          /\ UNCHANGED <<ratings, localStorage, added>>
     ELSE /\ ratings' = MapSet(ratings, Rating(movieId, UserId, score))
          /\ localStorage' = save(localStorage, UserId, ratings', ok)
          /\ answer' = Answer("addRating", movieId, score, ok, NoData)
          /\ added' = IF ok THEN [added EXCEPT ![movieId] = score] ELSE added
  /\ UNCHANGED <<serverVars, probe, second>>

\* deleteRating(movieId)
DeleteRating(movieId, ok) ==
  /\ IF ~\E i \in 1..Len(ratings) : ratings[i].movieId = movieId
     THEN /\ answer' = Answer("deleteRating", movieId, 0, FALSE, NoData)
          /\ UNCHANGED <<ratings, localStorage>>
     ELSE /\ ratings' = MapDelete(ratings, movieId)
          /\ localStorage' = save(localStorage, UserId, ratings', ok)
          /\ answer' = Answer("deleteRating", movieId, 0, ok, NoData)
  /\ UNCHANGED <<serverVars, probe, second, added>>

\* clearAllRatings()
ClearAllRatings(ok) ==
  /\ ratings' = <<>>
  /\ localStorage' = save(localStorage, UserId, ratings', ok)
  /\ answer' = Answer("clearAllRatings", "", 0, ok, NoData)
  /\ UNCHANGED <<serverVars, probe, second, added>>

\* The page is loaded again: new UserDataStore() loads from the storage.
Reload ==
  /\ ratings' = load(localStorage, UserId)
  /\ answer' = Answer("new", "", 0, TRUE, NoData)
  /\ UNCHANGED <<serverVars, probe, second, localStorage, added>>

\* getTasteProfile()
GetTasteProfile ==
  /\ answer' = Answer("getTasteProfile", "", 0, TRUE, getTasteProfile(ratings))
  /\ UNCHANGED <<serverVars, probe, second, ratings, localStorage, added>>

\* calculateTasteProfile(store.getRatings().data, MOVIE_MAP)
CalculateTasteProfile ==
  /\ answer' = Answer("calculateTasteProfile", "", 0, TRUE,
                      calculateTasteProfile(ratings, MOVIE_MAP))
  /\ UNCHANGED <<serverVars, probe, second, ratings, localStorage, added>>

\* ------------------------------------------------------------ two stores
\* Two stores of the same user constructed over the same storage, for
\* example in two tabs: each has loaded what the storage held.
InitShared ==
  /\ impl = "worker"
  /\ movies = SeedMovies
  /\ taste_profile = <<>>
  /\ Quiet
  /\ localStorage \in {NoItem, Item(<<Rating("movie-2", OtherUser, 40)>>)}
  /\ ratings = load(localStorage, UserId)
  /\ answer = NoAnswer
  /\ added = [m \in DOMAIN MOVIE_MAP |-> 0]
  /\ second = [NoSecond EXCEPT !.open = TRUE, !.ratings = load(localStorage, UserId)]
  /\ probe = NoProbe

\* What a call on the second store returned.
SecondAnswer(op, movieId, success) ==
  [op |-> op, movieId |-> movieId, success |-> success, tick |-> 1 - second.answer.tick]

\* addRating(movieId, score) on the second store.
SecondAddRating(movieId, score, ok) ==
  /\ second.open
  /\ IF ~IsInteger(score) \/ score < 10 \/ score > 50 \/ movieId \notin DOMAIN MOVIE_MAP
     THEN /\ second' = [second EXCEPT !.answer = SecondAnswer("addRating", movieId, FALSE)]
          /\ UNCHANGED localStorage
     ELSE LET entries == MapSet(second.ratings, Rating(movieId, UserId, score))
          IN /\ second' = [second EXCEPT !.ratings = entries,
                             !.answer = SecondAnswer("addRating", movieId, ok)]
             /\ localStorage' = save(localStorage, UserId, entries, ok)
  /\ UNCHANGED <<serverVars, probe, ratings, answer, added>>

\* deleteRating(movieId) on the second store.
SecondDeleteRating(movieId, ok) ==
  /\ second.open
  /\ IF ~\E i \in 1..Len(second.ratings) : second.ratings[i].movieId = movieId
     THEN /\ second' = [second EXCEPT !.answer = SecondAnswer("deleteRating", movieId, FALSE)]
          /\ UNCHANGED localStorage
     ELSE LET entries == MapDelete(second.ratings, movieId)
          IN /\ second' = [second EXCEPT !.ratings = entries,
                             !.answer = SecondAnswer("deleteRating", movieId, ok)]
             /\ localStorage' = save(localStorage, UserId, entries, ok)
  /\ UNCHANGED <<serverVars, probe, ratings, answer, added>>

\* ------------------------------------------------------------ dimension scores
\* The rated rows of the movies table by kind: the rows of a kind agree in
\* genres, year and user_rating (a year of 0 and no genre stand for NULL).
KindRow ==
  << [genres |-> <<"Action">>, year |-> 1975, user_rating |-> 10],
     [genres |-> <<"Action", "Drama">>, year |-> 1995, user_rating |-> 7],
     [genres |-> <<"Comedy">>, year |-> 2012, user_rating |-> 3],
     [genres |-> <<"Drama">>, year |-> 1999, user_rating |-> 5],
     [genres |-> <<>>, year |-> 0, user_rating |-> 9] >>

Kinds == DOMAIN KindRow

\* The number of rated rows of a history (a count per kind).
SampleSize(hist) == SumSeq([k \in Kinds |-> hist[k]])

\* A score as the quotient num / den.
Quotient(num, den) == [num |-> num, den |-> den]

\* toFixed(2) of num / den, as a quotient over 100.
ToFixedQuotient(num, den) == Quotient((200 * num + den) \div (2 * den), 100)

\* Math.max and Math.min over a non-empty set of numbers.
MaxOf(S) == CHOOSE x \in S : \A y \in S : y <= x
MinOf(S) == CHOOSE x \in S : \A y \in S : x <= y

\* The genres and the decades that occur in the rated rows.
GenresOf(hist) == {g \in Range(AllGenres) : \E k \in Kinds : hist[k] > 0 /\ g \in Range(KindRow[k].genres)}
DecadeOf(year) == (year \div 10) * 10
DecadesOf(hist) == {DecadeOf(KindRow[k].year) : k \in {j \in Kinds : hist[j] > 0 /\ KindRow[j].year # 0}}

\* api groupByRating and the weights of processMovies, in tenths:
\* loved 1.0, liked 0.6, neutral 0.3, disliked -0.5.
TierWeight(user_rating) ==
  IF user_rating >= 9 THEN 10
  ELSE IF user_rating >= 7 THEN 6
  ELSE IF user_rating >= 5 THEN 3
  ELSE -5

\* The genre weights of the api without the normalisation: the sums of the
\* tier weights as they are.
rawGenreWeights(hist) ==
  [g \in GenresOf(hist) |->
     Quotient(SumSeq([k \in Kinds |-> IF g \in Range(KindRow[k].genres)
                                      THEN hist[k] * TierWeight(KindRow[k].user_rating) ELSE 0]),
              10)]

\* api calculateGenrePreferences: genreWeights, then min-max normalisation
\* (0.5 for every genre when the weights do not differ).
calculateGenrePreferences(hist) ==
  LET genreWeights == [g \in GenresOf(hist) |->
        SumSeq([k \in Kinds |-> IF g \in Range(KindRow[k].genres)
                                THEN hist[k] * TierWeight(KindRow[k].user_rating) ELSE 0])]
      maxWeight == MaxOf(Range(genreWeights))
      minWeight == MinOf(Range(genreWeights))
  IN [g \in GenresOf(hist) |->
        IF maxWeight - minWeight > 0
        THEN Quotient(genreWeights[g] - minWeight, maxWeight - minWeight)
        ELSE Quotient(1, 2)]

\* api calculateEraPreferences: per decade the mean of user_rating / 10.
calculateEraPreferences(hist) ==
  [d \in DecadesOf(hist) |->
     Quotient(SumSeq([k \in Kinds |-> IF KindRow[k].year # 0 /\ DecadeOf(KindRow[k].year) = d
                                      THEN hist[k] * KindRow[k].user_rating ELSE 0]),
              10 * SumSeq([k \in Kinds |-> IF KindRow[k].year # 0 /\ DecadeOf(KindRow[k].year) = d
                                           THEN hist[k] ELSE 0]))]

\* worker extractGenrePreferences: per genre the sum of user_rating / 10 (here
\* in tenths), divided by the largest sum or by 1, to two places.
extractGenrePreferences(hist) ==
  LET genreScores == [g \in GenresOf(hist) |->
        SumSeq([k \in Kinds |-> IF g \in Range(KindRow[k].genres)
                                THEN hist[k] * KindRow[k].user_rating ELSE 0])]
      maxScore == MaxOf(Range(genreScores) \cup {10})
  IN [g \in GenresOf(hist) |-> ToFixedQuotient(genreScores[g], maxScore)]

\* worker extractEraPreferences: the same per decade.
extractEraPreferences(hist) ==
  LET eraScores == [d \in DecadesOf(hist) |->
        SumSeq([k \in Kinds |-> IF KindRow[k].year # 0 /\ DecadeOf(KindRow[k].year) = d
                                THEN hist[k] * KindRow[k].user_rating ELSE 0])]
      maxScore == MaxOf(Range(eraScores) \cup {10})
  IN [d \in DecadesOf(hist) |-> ToFixedQuotient(eraScores[d], maxScore)]

\* A score in hundredths, as calculateConfidence of the api reads the genre
\* scores.
Hundredths(q) == (200 * q.num + q.den) \div (2 * q.den)

\* The confidence before the api's damping of uniform genre scores:
\* Math.min(sampleSize / 100, 1.0); the worker has no damping.
BaseConfidence(variant, sampleSize) ==
  IF variant = "worker" THEN WorkerConfidence(sampleSize) ELSE Min(sampleSize, 100)

\* What calculateTasteProfile returns for a history, and the rows it stores:
\* the insufficient-data result below MIN_SAMPLE_SIZE (no profile and so no
\* confidence: 0 stands for none), the profile otherwise.
ProfileOf(variant, hist) ==
  LET n == SampleSize(hist)
      genres == IF variant = "worker" THEN extractGenrePreferences(hist)
                ELSE calculateGenrePreferences(hist)
      eras == IF variant = "worker" THEN extractEraPreferences(hist)
              ELSE calculateEraPreferences(hist)
      confidence == IF variant = "worker" THEN WorkerConfidence(n)
                    ELSE ApiConfidence(n, [g \in DOMAIN genres |-> Hundredths(genres[g])])
      profile == [found |-> TRUE, genres |-> genres, eras |-> eras, themes |-> <<>>,
                  directors |-> <<>>, runtime_preference |-> "medium",
                  sample_size |-> n, confidence |-> confidence]
      steps == StoreSteps(variant, profile)
  IN IF n < MIN_SAMPLE_SIZE
     THEN [sample_size |-> n, required |-> MIN_SAMPLE_SIZE, genres |-> <<>>, eras |-> <<>>,
           base |-> 0, confidence |-> 0, rows |-> <<>>]
     ELSE [sample_size |-> n, required |-> 0, genres |-> genres, eras |-> eras,
           base |-> BaseConfidence(variant, n), confidence |-> confidence,
           rows |-> [i \in 1..Len(steps) |-> steps[i].row]]

\* The histories the score computations start from: the rows of the first
\* kind are imported one by one afterwards.
Histories ==
  {<<0, a, b, c, d>> : a \in {0, 19}, b \in {0, 1, 30}, c \in {0, 20}, d \in {0, 1}}

NoScores ==
  [sample_size |-> 0, required |-> 0, genres |-> <<>>, eras |-> <<>>, base |-> 0,
   confidence |-> 0, rows |-> <<>>]

\* A movies table with the rated rows of a history; nothing else goes on.
InitScores ==
  /\ impl \in {"api", "worker"}
  /\ movies = SeedMovies
  /\ taste_profile = <<>>
  /\ Quiet
  /\ Unopened
  /\ probe \in {[pc |-> "rated", hist |-> h, before |-> NoScores, result |-> NoScores] :
                  h \in Histories}

\* One more rated row of the first kind is imported.
ImportRated ==
  /\ probe.pc \in {"profile", "insufficient"}
  /\ SampleSize(probe.hist) < MaxRated
  /\ probe' = [probe EXCEPT !.pc = "rated", !.hist[1] = @ + 1, !.before = probe.result]
  /\ UNCHANGED <<serverVars, clientVars>>

\* calculateTasteProfile runs over the rated rows.
Calculate ==
  /\ probe.pc = "rated"
  /\ probe' = [probe EXCEPT
                 !.pc = IF SampleSize(probe.hist) < MIN_SAMPLE_SIZE THEN "insufficient"
                        ELSE "profile",
                 !.result = ProfileOf(impl, probe.hist)]
  /\ UNCHANGED <<serverVars, clientVars>>

\* ------------------------------------------------------------ similarity
\* The attribute vectors compared, in tenths: profiles with every attribute
\* at 0, 0.3 or 1, and objects that have at most two of the attributes, each
\* at 0.4 or 1.
Profiles == [Range(FILM_ATTRIBUTES) -> {0, 3, 10}]

Sparse ==
  UNION {[S -> {4, 10}] : S \in {T \in SUBSET Range(FILM_ATTRIBUTES) : Cardinality(T) <= 2}}

\* A page that holds a profile and has compared nothing yet.
InitSimilarity ==
  /\ impl = "worker"
  /\ movies = SeedMovies
  /\ taste_profile = <<>>
  /\ Quiet
  /\ Unopened
  /\ probe \in {[pc |-> "vectors", a |-> a, b |-> a, result |-> 0] : a \in Profiles}

\* calculateCosineSimilarity(a, b) is called.
CosineSimilarity(b) ==
  /\ probe.pc = "vectors"
  /\ probe' = [probe EXCEPT !.pc = "similarity", !.b = b,
                 !.result = calculateCosineSimilarity(probe.a, b)]
  /\ UNCHANGED <<serverVars, clientVars>>

\* ------------------------------------------------------------ local scores
\* Rows of the movies table as the imports can leave them: with no genre,
\* one or two; with no year (0) or one; with no runtime (0), a short, a medium
\* or a long one; with no tmdb_rating (0), 5.5 or 10.
CandidateRowsOfAnyKind ==
  [genres : {<<>>, <<"Action">>, <<"Action", "Drama">>, <<"Comedy">>},
   year : {0, 1975, 2012},
   runtime_minutes : {0, 80, 120, 160},
   tmdb_rating : {0, 55, 100}]

\* Stored profiles: the two tastes, one whose rated films had neither year
\* nor runtime, and one whose rated films had no attribute at all.
StoredProfiles ==
  {[genres |-> t.genres, eras |-> t.eras, runtime_preference |-> t.runtime_preference] :
     t \in Tastes}
  \cup { [genres |-> [Action |-> 0, Comedy |-> 100], eras |-> <<>>, runtime_preference |-> ""],
         [genres |-> <<>>, eras |-> <<>>, runtime_preference |-> ""] }

\* A candidate row and the stored profile, before the engine scores the row.
InitLocal ==
  /\ impl \in {"api", "worker"}
  /\ movies = SeedMovies
  /\ taste_profile = <<>>
  /\ Quiet
  /\ Unopened
  /\ probe \in {[pc |-> "candidate", movie |-> m, profile |-> p, result |-> 0] :
                  m \in CandidateRowsOfAnyKind, p \in StoredProfiles}

\* The engine scores the row: calculateBasicMatchScore in the worker,
\* calculateFallbackScore in the api.
ScoreCandidate ==
  /\ probe.pc = "candidate"
  /\ probe' = [probe EXCEPT !.pc = "scored",
                 !.result = LocalScore(impl, probe.movie, probe.profile)]
  /\ UNCHANGED <<serverVars, clientVars>>

\* ------------------------------------------------------------ diversity
\* The ranked lists the diversity pass can be handed: the films of the table
\* in any order, none twice.
RankedLists ==
  {ranked \in UNION {[1..n -> DOMAIN Films] : n \in 0..Cardinality(DOMAIN Films)} :
     \A i, j \in 1..Len(ranked) : ranked[i] = ranked[j] => i = j}

\* The counts asked for.
Counts == {1, 3, 4, DEFAULT_COUNT}

\* The worker holds a ranking and the count of the call.
InitDiversity ==
  /\ impl = "worker"
  /\ movies = SeedMovies
  /\ taste_profile = <<>>
  /\ Quiet
  /\ Unopened
  /\ probe \in {[pc |-> "ranked", ranked |-> ranked, count |-> count, cut |-> <<>>,
                  out |-> <<>>] : ranked \in RankedLists, count \in Counts}

\* The ranking is cut to count and goes through the diversity pass.
DiversityPass ==
  /\ probe.pc = "ranked"
  /\ LET cut == Slice(probe.ranked, probe.count)
         recs == [i \in 1..Len(cut) |->
                    [imdb_id |-> cut[i], match_score |-> RankScore(i - 1)]]
         diversified == Diversify(recs, probe.count)
     IN probe' = [probe EXCEPT !.pc = "diversified", !.cut = cut,
                    !.out = [i \in 1..Len(diversified) |-> diversified[i].imdb_id]]
  /\ UNCHANGED <<serverVars, clientVars>>

\* ------------------------------------------------------------ specification
\* The engine: calls of generateRecommendations against a stored profile,
\* while the clock moves and one more film is imported.
Next ==
  \/ \E k \in {"tt4"} : ImportMovie(k)
  \/ Tick
  \/ \E r \in Calls :
       \/ \E options \in OptionSet : Begin(r, options)
       \/ CheckCache(r)
       \/ Select(r)
       \/ \E resp \in OracleResponses : OracleRespond(r, resp)
       \/ \E ok \in BOOLEAN : SaveToCache(r, ok)
       \/ Return(r)

Spec == Init /\ [][Next]_vars

\* The profile store: calculateTasteProfile step by step, next to calls of
\* generateRecommendations that read the stored profile.  The calls take the
\* default options, the oracle rejects and the cache INSERT fails, so that
\* the cache stays empty and every call reads the profile afresh.
NextProfile ==
  \/ \E k \in {"tt5"} : ImportMovie(k)
  \/ \E c \in Calcs : CalcBegin(c) \/ CalcDelete(c) \/ CalcInsert(c) \/ CalcReturn(c)
  \/ \E row \in inflight : LandInsert(row)
  \/ \E r \in Calls :
       \/ \E options \in {o \in OptionSet : o = IdleReq.options} : Begin(r, options)
       \/ CheckCache(r)
       \/ Select(r)
       \/ \E resp \in {x \in OracleResponses : x.kind = "throw"} : OracleRespond(r, resp)
       \/ \E ok \in {FALSE} : SaveToCache(r, ok)
       \/ Return(r)

SpecProfile == InitProfile /\ [][NextProfile]_vars

\* The engine waiting for the oracle: calls with the count left out or set
\* to 1, an oracle that rejects or ranks two candidates, the clock moving.
NextOracle ==
  \/ Tick
  \/ \E r \in Calls :
       \/ \E options \in {o \in OptionSet : o.genre_filter = <<>> /\ o.era_filter = ""
                                             /\ o.count <= 1} : Begin(r, options)
       \/ CheckCache(r)
       \/ Select(r)
       \/ \E resp \in {x \in OracleResponses : x.kind = "throw" \/ Len(x.entries) = 2} :
            OracleRespond(r, resp)
       \/ \E ok \in BOOLEAN : SaveToCache(r, ok)
       \/ Return(r)

SpecOracle == Init /\ [][NextOracle]_vars

\* The error results: calls with the default options or with filters that no
\* film of the table passes, with or without a stored profile.
NextErrors ==
  \/ Tick
  \/ \E r \in Calls :
       \/ \E options \in {o \in OptionSet : o = IdleReq.options \/ o.mood = "dark"} :
            Begin(r, options)
       \/ CheckCache(r)
       \/ Select(r)
       \/ \E resp \in {x \in OracleResponses : x.kind = "throw" \/ Len(x.entries) = 2} :
            OracleRespond(r, resp)
       \/ \E ok \in BOOLEAN : SaveToCache(r, ok)
       \/ Return(r)

SpecErrors == Init /\ [][NextErrors]_vars

\* The engine before an oracle that rejects or answers outside what it was
\* asked: calls for the default count or for more than MAX_COUNT films.
NextRange ==
  \/ Tick
  \/ \E r \in Calls :
       \/ \E options \in {o \in OptionSet : o.mood = "" /\ o.genre_filter = <<>>
                                             /\ o.count \in {0, 60}} : Begin(r, options)
       \/ CheckCache(r)
       \/ Select(r)
       \/ \E resp \in {x \in OracleResponses : x.kind = "throw"} \cup UnaskedResponses :
            OracleRespond(r, resp)
       \/ \E ok \in BOOLEAN : SaveToCache(r, ok)
       \/ Return(r)

SpecRange == Init /\ [][NextRange]_vars

\* The similarity of a profile with itself and with sparse vectors.
NextSimilarity == \E b \in {probe.a} \cup Sparse : CosineSimilarity(b)

SpecSimilarity == InitSimilarity /\ [][NextSimilarity]_vars

\* The local score of every kind of row under every stored profile.
NextLocal == ScoreCandidate

SpecLocal == InitLocal /\ [][NextLocal]_vars

\* Two callers at once, with the default options or a genre filter, an
\* oracle that rejects, and the clock moving.
NextConcurrent ==
  \/ Tick
  \/ \E r \in Callers :
       \/ \E options \in {o \in OptionSet : o.mood = "" /\ o.era_filter = ""
                                             /\ o.count \in {0, 3}
                                             /\ (o.count = 3 => o.genre_filter # <<>>)} :
            Begin(r, options)
       \/ CheckCache(r)
       \/ Select(r)
       \/ \E resp \in {x \in OracleResponses : x.kind = "throw"} : OracleRespond(r, resp)
       \/ \E ok \in BOOLEAN : SaveToCache(r, ok)
       \/ Return(r)

SpecConcurrent == InitConcurrent /\ [][NextConcurrent]_vars

\* The diversity pass over every ranking and count.
NextDiversity == DiversityPass

SpecDiversity == InitDiversity /\ [][NextDiversity]_vars

\* Two calls of calculateTasteProfile, step by step in any interleaving.
NextRecalc ==
  \/ \E c \in Calculators : CalcBegin(c) \/ CalcDelete(c) \/ CalcInsert(c) \/ CalcReturn(c)
  \/ \E row \in inflight : LandInsert(row)

SpecRecalc == InitRecalc /\ [][NextRecalc]_vars

\* The browser side: calls on one UserDataStore, with a storage that takes
\* the data or throws, and page loads.
NextStore ==
  \/ \E movieId \in MovieIds, score \in Scores, ok \in BOOLEAN : AddRating(movieId, score, ok)
  \/ \E movieId \in MovieIds, ok \in BOOLEAN : DeleteRating(movieId, ok)
  \/ \E ok \in BOOLEAN : ClearAllRatings(ok)
  \/ Reload
  \/ GetTasteProfile
  \/ CalculateTasteProfile

SpecStore == InitStore /\ [][NextStore]_vars

\* Two stores over one storage: the first rates and deletes with score 5,
\* the second with score 1.
NextShared ==
  \/ \E movieId \in DOMAIN MOVIE_MAP \cap MovieIds, ok \in BOOLEAN :
       \/ AddRating(movieId, 50, ok)
       \/ DeleteRating(movieId, ok)
       \/ SecondAddRating(movieId, 10, ok)
       \/ SecondDeleteRating(movieId, ok)

SpecShared == InitShared /\ [][NextShared]_vars

\* The score computations: calculateTasteProfile over a growing history.
NextScores == ImportRated \/ Calculate

SpecScores == InitScores /\ [][NextScores]_vars

\* The browser side with a storage that always takes the data: every call
\* that passes the validation succeeds.
NextStoreSaved ==
  \/ \E movieId \in MovieIds, score \in Scores, ok \in {TRUE} : AddRating(movieId, score, ok)
  \/ \E movieId \in MovieIds, ok \in {TRUE} : DeleteRating(movieId, ok)
  \/ \E ok \in {TRUE} : ClearAllRatings(ok)
  \/ Reload
  \/ GetTasteProfile
  \/ CalculateTasteProfile

SpecStoreSaved == InitStore /\ [][NextStoreSaved]_vars

\* A step of a call that waits for nothing but the database or its caller.
OwnStep(r) ==
  CheckCache(r) \/ Select(r) \/ (\E ok \in BOOLEAN : SaveToCache(r, ok)) \/ Return(r)

\* Its own steps are scheduled fairly: a call that can take a step of its
\* own (a database read or write, the return) takes it.  Nothing obliges
\* ai.run to settle.
FairSpec ==
  /\ Init
  /\ [][NextOracle]_vars
  /\ \A r \in Calls : WF_vars(OwnStep(r))

\* ------------------------------------------------------------ properties
\* The imdb_ids of a list of recommendations, in order.
Ids(recs) == [i \in 1..Len(recs) |-> recs[i].imdb_id]

\* The call has ended and handed a list to its caller.
Returned(r) == req[r].pc = "done" /\ req[r].result.status = "ok"

\* The call has ended after computing its list (no cache hit).
Computed(r) == req[r].pc = "done" /\ req[r].path \in {"oracle", "fallback"}

\* The count the caller asked for: absent means DEFAULT_COUNT, never above MAX_COUNT.
Asked(r) ==
  Min(IF req[r].options.count = 0 THEN DEFAULT_COUNT ELSE req[r].options.count, MAX_COUNT)

\* The oracle's answer is a failure: a rejection, an empty or unparsable
\* text, a value of the wrong shape, or entries that match no candidate.
OracleFailed(r) ==
  \/ req[r].resp.kind \in {"throw", "empty", "garbage", "object"}
  \/ /\ req[r].resp.kind = "list"
     /\ \/ req[r].resp.entries = <<>>
        \/ \E i \in 1..Len(req[r].resp.entries) :
             \/ ~req[r].resp.entries[i].score_is_number
             \/ req[r].resp.entries[i].imdb_id \notin Range(req[r].candidates)

\* The primary genres of a list of films.
PrimaryGenres(ids) == {Films[ids[i]].genres[1] : i \in 1..Len(ids)}

\* C1: no result of generateRecommendations, computed or served from the
\* cache, holds a film that had a user rating when the call was made.
NeverRecommendsRated ==
  \A r \in Calls :
    req[r].pc = "done" =>
      \A i \in 1..Len(req[r].result.recommendations) :
        req[r].result.recommendations[i].imdb_id \notin req[r].ratedAtCall

\* C2: when the oracle fails (and nothing else does) and there is a
\* candidate, the call returns normally min(count, candidates) films in
\* non-increasing order of local match score.
OracleFailureFallsBack ==
  \A r \in Calls :
    (Computed(r) /\ OracleFailed(r) /\ ~req[r].saveFailed) =>
      LET recs == req[r].result.recommendations
          score(i) == LocalScore(impl, Films[recs[i].imdb_id], req[r].profile)
      IN /\ req[r].result.status = "ok"
         /\ Len(recs) = Min(req[r].count, Len(req[r].candidates))
         /\ Len(recs) > 0
         /\ \A i \in 1..Len(recs) : recs[i].imdb_id \in DOMAIN Films
         /\ \A i \in 1..(Len(recs) - 1) : score(i) >= score(i + 1)

\* C3: in a computed result for count c no primary genre occurs more than
\* ceil(c / 3) times when the candidates have three primary genres or more.
DiversityCap ==
  \A r \in Calls :
    (Computed(r) /\ Returned(r) /\ Cardinality(PrimaryGenres(req[r].candidates)) >= 3) =>
      LET ids == SelectSeq(Ids(req[r].result.recommendations), LAMBDA k : k \in DOMAIN Films)
      IN \A g \in PrimaryGenres(ids) :
           Cardinality({i \in 1..Len(ids) : Films[ids[i]].genres[1] = g})
             <= CeilDiv(req[r].count, 3)

\* C4: a call with the mood, filters and count of an earlier call whose
\* result was cached, made before the entry expires, is a cache hit and
\* returns the ids the earlier call returned, in the same order.
CachedRepeatMatches ==
  \A r \in Calls :
    \A i \in 1..req[r].lookupLen :
      ( /\ recommendations[i].context = ContextKey(impl, req[r].options)
        /\ recommendations[i].count = req[r].count
        /\ req[r].lookupAt < recommendations[i].written + 24 ) =>
          /\ req[r].path = "cache"
          /\ req[r].pc = "done" =>
               /\ req[r].result.cached
               /\ Ids(req[r].result.recommendations) = recommendations[i].returned

\* C5: every returned list has at most min(count, 50) entries, count being
\* 10 when absent.
LengthWithinCount ==
  \A r \in Calls :
    Returned(r) => Len(req[r].result.recommendations) <= Asked(r)

\* C6: a read of the stored profile during a replacement sees the whole
\* previous profile or the whole new one.
ProfileReadAtomic ==
  \A r \in Calls : req[r].sawWhole

\* C7: a lookup at hour now is served the entry written at hour t under its
\* key exactly when now < t + 24.
CacheLiveExactlyTTL ==
  \A r \in Calls :
    \A i \in 1..req[r].lookupLen :
      recommendations[i].context = ContextKey(impl, req[r].options) =>
        (req[r].hit = i <=> req[r].lookupAt < recommendations[i].written + 24)

\* C8: when the cache write fails the call still returns the list it
\* computed, not an error.
CacheWriteBestEffort ==
  \A r \in Calls :
    (req[r].pc = "done" /\ req[r].saveFailed) =>
      /\ req[r].result.status = "ok"
      /\ req[r].result.recommendations = req[r].out

\* C9: on the oracle path every returned film is one of the candidates handed
\* to the oracle, and an entry outside them is dropped without failing the
\* call.
OracleEntriesValidated ==
  \A r \in Calls :
    (req[r].pc = "done" /\ req[r].path = "oracle" /\ ~req[r].saveFailed) =>
      /\ req[r].result.status = "ok"
      /\ \A i \in 1..Len(req[r].result.recommendations) :
           req[r].result.recommendations[i].imdb_id \in Range(req[r].candidates)

\* C10: a call that waits for the oracle returns in the end, whether or not
\* the oracle ever answers.
CallEventuallyReturns ==
  \A r \in Calls : (req[r].pc = "oracle") ~> (req[r].pc = "done")

\* The lookup of the call found an entry of its context key that was written
\* less than 24 hours before.
FoundUnexpired(r) ==
  \E i \in 1..req[r].lookupLen :
    /\ recommendations[i].context = ContextKey(impl, req[r].options)
    /\ req[r].lookupAt < recommendations[i].written + 24

\* C11: a call whose lookup finds an unexpired entry of its context key
\* returns that entry; it scores no candidate, calls no oracle and writes no
\* cache entry.
CacheHitSkipsCompute ==
  \A r \in Calls :
    FoundUnexpired(r) =>
      /\ req[r].pc = "done"
      /\ req[r].path = "cache"
      /\ req[r].result.cached
      /\ req[r].hit \in 1..req[r].lookupLen
      /\ Len(req[r].result.recommendations) <=
           Len(recommendations[req[r].hit].recommended_movie_ids)
      /\ req[r].candidates = <<>>
      /\ req[r].resp.kind = "none"
      /\ req[r].recs = <<>>
      /\ Len(recommendations) = req[r].lookupLen

\* C11 witness: a call has been served a live entry from the cache.
CacheHitServed ==
  \E r \in Calls :
    /\ FoundUnexpired(r)
    /\ req[r].pc = "done"
    /\ req[r].path = "cache"
    /\ Len(req[r].result.recommendations) > 0

\* A call that found no stored profile has returned the no-profile result; a
\* call with the no-candidates result had a profile and no candidate; neither
\* result carries a recommendation or follows an oracle call, and only a call
\* with a profile and candidates waits for the oracle or for the cache INSERT.
ErrorResultsExplicit ==
  \A r \in Calls :
    /\ (req[r].pc # "idle" /\ ~req[r].profile.found) =>
         req[r].pc = "done" /\ req[r].result.status = "no_profile"
    /\ req[r].result.status = "no_profile" => ~req[r].profile.found
    /\ req[r].result.status = "no_candidates" =>
         req[r].profile.found /\ req[r].pc = "done"
    /\ req[r].result.status \in {"no_profile", "no_candidates"} =>
         /\ req[r].result.recommendations = <<>>
         /\ ~req[r].result.cached
         /\ req[r].candidates = <<>>
         /\ req[r].resp.kind = "none"
         /\ req[r].path = "none"
    /\ req[r].pc \in {"oracle", "save"} =>
         req[r].profile.found /\ req[r].candidates # <<>>
    /\ req[r].result.status = "exception" =>
         req[r].resp.kind # "none" /\ req[r].candidates # <<>>

\* A step that changes the cache table is the INSERT of a call that had a
\* profile and candidates.
CacheWrittenOnlyAfterCompute ==
  recommendations' # recommendations =>
    \E r \in Calls :
      /\ req[r].pc = "save"
      /\ req[r].profile.found
      /\ req[r].candidates # <<>>
      /\ req'[r].result.status = "ok"

\* C12: a missing profile and an empty candidate list are reported as two
\* distinct error results with an empty list, never as an exception, and on
\* either path no oracle call is made and no cache entry is written.
ErrorsReportedWithoutSideEffects ==
  []ErrorResultsExplicit /\ [][CacheWrittenOnlyAfterCompute]_vars

\* C12 witness: a call with a stored profile has returned the no-candidates
\* result while the cache holds another call's entry.
NoCandidatesReported ==
  \E r \in Calls :
    /\ req[r].pc = "done"
    /\ req[r].result.status = "no_candidates"
    /\ req[r].profile.found
    /\ req[r].lookupLen = Len(recommendations)
    /\ Len(recommendations) > 0

\* A call of calculateTasteProfile that starts with fewer than 20 rated
\* movies ends in that step with the insufficient-data result.
InsufficientStep ==
  \A c \in Calcs :
    (calc[c].pc = "idle" /\ calc'[c].pc # "idle" /\ RatedCount(movies) < MIN_SAMPLE_SIZE) =>
      /\ calc'[c].pc = "done"
      /\ calc'[c].result = "insufficient"
      /\ calc'[c].sample_size = RatedCount(movies)
      /\ calc'[c].required = 20
      /\ taste_profile' = taste_profile
      /\ inflight' = inflight

\* A step that deletes or inserts a row of taste_profile is not one of a call
\* with the insufficient-data result, and every row it leaves was computed
\* from at least 20 rated movies.
ProfileRowsChangedOnlyWithEnough ==
  taste_profile' # taste_profile =>
    /\ \A c \in Calcs : calc[c].result # "insufficient" /\ calc'[c].result # "insufficient"
    /\ \A i \in 1..Len(taste_profile') : taste_profile'[i].sample_size >= 20

\* C13: with fewer than 20 rated movies calculateTasteProfile returns the
\* insufficient-data result with the observed sample size and the required
\* minimum 20, and deletes and inserts no row of the stored profile.
InsufficientDataLeavesProfile ==
  [][InsufficientStep /\ ProfileRowsChangedOnlyWithEnough]_vars

\* C13 witness: a call has returned the insufficient-data result for 19 rated
\* movies.
InsufficientReturned ==
  \E c \in Calcs :
    /\ calc[c].pc = "done"
    /\ calc[c].result = "insufficient"
    /\ calc[c].sample_size = RatedCount(movies)
    /\ calc[c].sample_size < MIN_SAMPLE_SIZE
    /\ calc[c].required = MIN_SAMPLE_SIZE

\* C14: when calculateTasteProfile has returned a profile, the row of every
\* dimension of it (genres, eras, themes, runtime preference, directors) is in
\* the taste_profile table.
ProfileStoredOnReturn ==
  \A c \in Calcs :
    (calc[c].pc = "done" /\ calc[c].result = "ok") =>
      LET steps == StoreSteps(impl, calc[c].profile)
      IN \A i \in 1..Len(steps) : steps[i].row \in Range(taste_profile)

\* The score the Map holds for a movie of the catalog, 0 without a rating.
ScoreOf(m) ==
  LET held == SelectSeq(ratings, LAMBDA r : r.movieId = m)
  IN SumSeq([i \in 1..Len(held) |-> held[i].score])

\* sum(score_i * attr_i(d)) and sum(score_i) over the catalog.
Catalog == <<"movie-1", "movie-2", "movie-3">>
WeightedSum(d) == SumSeq([i \in 1..Len(Catalog) |-> ScoreOf(Catalog[i]) * MOVIE_MAP[Catalog[i]][d]])
TotalWeight == SumSeq([i \in 1..Len(Catalog) |-> ScoreOf(Catalog[i])])

\* A dimension value in thousandths, rounded to the nearest.
Thousandths(v) == (20 * v.num + v.den) \div (2 * v.den)

\* C15: for a non-empty history of catalog movies both fixed-variant builders
\* set each dimension d to sum(score_i * attr_i(d)) / sum(score_i); Mad Max
\* rated 5 and Superbad rated 1 give action 0.842 and drama 0.4.
WeightedAverageProfile ==
  (answer.op \in {"getTasteProfile", "calculateTasteProfile"} /\ ratings # <<>>) =>
    /\ \A d \in Range(FILM_ATTRIBUTES) :
         /\ answer.data[d].den > 0
         /\ answer.data[d].num * TotalWeight = WeightedSum(d) * answer.data[d].den
    /\ (ScoreOf("movie-1") = 50 /\ ScoreOf("movie-3") = 10 /\ Len(ratings) = 2) =>
         Thousandths(answer.data["action"]) = 842 /\ Thousandths(answer.data["drama"]) = 400

\* C15 witness: the store has built the profile of Mad Max rated 5 and
\* Superbad rated 1.
MadMaxSuperbadProfile ==
  /\ answer.op = "getTasteProfile"
  /\ Len(ratings) = 2
  /\ ScoreOf("movie-1") = 50
  /\ ScoreOf("movie-3") = 10
  /\ Thousandths(answer.data["action"]) = 842

\* C16: for an empty rating history both fixed-variant builders return,
\* without error, the neutral profile: every dimension equals 0.5.
EmptyHistoryNeutral ==
  (answer.op \in {"getTasteProfile", "calculateTasteProfile"} /\ ratings = <<>>) =>
    /\ answer.success
    /\ \A d \in Range(FILM_ATTRIBUTES) :
         answer.data[d].den > 0 /\ answer.data[d].num = 50 * answer.data[d].den

\* A score that lies in [0,1].
InUnit(q) == q.den > 0 /\ 0 <= q.num /\ q.num <= q.den

\* The genre and era scores of the stored rows lie in [0,1]: the worker stores
\* the maps in one row each, the api one row per genre and per decade.
StoredScoresInUnit(rows) ==
  \A i \in 1..Len(rows) :
    /\ rows[i].dimension_name \in {"genres", "eras"} =>
         \A x \in DOMAIN rows[i].metadata : InUnit(rows[i].metadata[x])
    /\ rows[i].dimension_name \in {"genre", "era"} => InUnit(rows[i].metadata)

\* C17: for a history of at least 20 rated movies every genre score and
\* every era score of the profile calculateTasteProfile returns and stores
\* lies in [0,1].
DimensionScoresInUnit ==
  probe.pc = "profile" =>
    /\ probe.result.sample_size >= 20
    /\ \A g \in DOMAIN probe.result.genres : InUnit(probe.result.genres[g])
    /\ \A d \in DOMAIN probe.result.eras : InUnit(probe.result.eras[d])
    /\ StoredScoresInUnit(probe.result.rows)

\* C17 witness: a profile over three genres and three decades has been
\* computed and its rows built, with a genre score strictly between 0 and 1.
ThreeGenreProfile ==
  /\ probe.pc = "profile"
  /\ DOMAIN probe.result.genres = {"Action", "Comedy", "Drama"}
  /\ DOMAIN probe.result.eras = {1970, 1990, 2010}
  /\ \E g \in DOMAIN probe.result.genres :
       0 < probe.result.genres[g].num /\ probe.result.genres[g].num < probe.result.genres[g].den
  /\ Len(probe.result.rows) >= 3

InvalidAddRating ==
  /\ answer'.tick # answer.tick
  /\ answer'.op = "addRating"
  /\ \/ answer'.score \notin {10, 20, 30, 40, 50}
     \/ answer'.movieId \notin {"movie-1", "movie-2", "movie-3"}

\* C19: addRating with an invalid score or an unknown movie returns a failure
\* and leaves the ratings in memory and the persisted ratings as they were.
InvalidRatingRejected ==
  [][InvalidAddRating =>
       ~answer'.success /\ ratings' = ratings /\ localStorage' = localStorage]_vars

\* C19 witness: addRating("movie-1", 6) has failed on a store that holds and
\* has persisted the rating 1 for movie-1.
SixRejected ==
  /\ answer.op = "addRating"
  /\ answer.movieId = "movie-1"
  /\ answer.score = 60
  /\ ~answer.success
  /\ ratings = <<Rating("movie-1", UserId, 10)>>
  /\ localStorage.present
  /\ Rating("movie-1", UserId, 10) \in Range(localStorage.ratings)

\* The ratings of the user in the persisted data.
Persisted == SelectSeq(localStorage.ratings, LAMBDA r : r.userId = UserId)

\* A list of ratings holds at most one rating per movie, each with the score
\* of the last successful addRating for its movie.
LastAddedOnly(rs) ==
  /\ \A i, j \in 1..Len(rs) : rs[i].movieId = rs[j].movieId => i = j
  /\ \A i \in 1..Len(rs) : rs[i].score = added[rs[i].movieId]

\* C20: after any sequence of addRating, deleteRating and clearAllRatings
\* calls the store and the persisted data hold at most one rating per user
\* and movie, with the score of the most recent successful addRating.
OneRatingLastAdded ==
  answer.op \in {"addRating", "deleteRating", "clearAllRatings"} =>
    LastAddedOnly(ratings) /\ LastAddedOnly(Persisted)

\* The movie ids and scores of a list of ratings.
MovieScores(rs) == {<<rs[i].movieId, rs[i].score>> : i \in 1..Len(rs)}

\* C21: after any sequence of successful calls a new store for the same user
\* over the same storage loads exactly the ratings (movie id and score) the
\* store holds, and no rating of another user.
ReloadRestoresRatings ==
  LET loaded == load(localStorage, UserId)
  IN /\ MovieScores(loaded) = MovieScores(ratings)
     /\ Len(loaded) = Len(ratings)
     /\ \A i \in 1..Len(loaded) : loaded[i].userId = UserId

\* C21 witness: a new store has loaded the two ratings of the user from a
\* storage that also holds the rating of another user.
TwoRatingsReloaded ==
  /\ answer.op = "new"
  /\ MovieScores(ratings) = {<<"movie-1", 50>>, <<"movie-3", 10>>}
  /\ \E i \in 1..Len(localStorage.ratings) : localStorage.ratings[i].userId = OtherUser

\* C22: every recommendation a call of generateRecommendations hands to its
\* caller, from the cache, from the oracle or from the fallback, has a
\* match_score between 0 and 1 (0 and 1200 in units of 1/1200).
MatchScoresInUnit ==
  \A r \in Calls :
    Returned(r) =>
      \A i \in 1..Len(req[r].result.recommendations) :
        req[r].result.recommendations[i].match_score \in 0..1200

\* The same for the calls that did not take the oracle's ranking: the cache
\* of such a call and the fallback.
LocalMatchScoresInUnit ==
  \A r \in Calls :
    Returned(r) /\ req[r].path = "fallback" =>
      \A i \in 1..Len(req[r].result.recommendations) :
        req[r].result.recommendations[i].match_score \in 0..1200

\* The attributes at which a vector is not 0.
Support(p) == {a \in Range(FILM_ATTRIBUTES) : AttributeOf(p, a) # 0}

MatchesGenre(genreFilter, m) ==
  genreFilter = <<>> \/ \E i \in 1..Len(genreFilter) : genreFilter[i] \in Range(m.genres)

\* The year lies in the bucket the engine gives the era; no filter, no demand.
InBucket(variant, eraFilter, year) ==
  CASE eraFilter = "classic" -> year < (IF variant = "worker" THEN 1980 ELSE 2000)
    [] eraFilter = "modern" -> IF variant = "worker" THEN year >= 1980 /\ year < 2010
                               ELSE year >= 2000 /\ year <= 2015
    [] eraFilter = "recent" -> IF variant = "worker" THEN year >= 2010 ELSE year > 2015
    [] OTHER -> TRUE

\* Every film a computed result holds passes both filters of the call.
ResultPassesFilters ==
  \A r \in Calls :
    Returned(r) /\ Computed(r) =>
      \A i \in 1..Len(req[r].result.recommendations) :
        LET m == Films[req[r].result.recommendations[i].imdb_id]
        IN /\ MatchesGenre(req[r].options.genre_filter, m)
           /\ InBucket(impl, req[r].options.era_filter, m.year)

\* The candidates a call selects hold every unrated film of the table that
\* has one of the filter's genres and a year in the era's bucket.
AnyOfGenreKept ==
  \A r \in Calls :
    req[r].pc # "oracle" /\ req'[r].pc = "oracle" =>
      \A k \in Range(movies) :
        ( /\ Films[k].user_rating = 0
          /\ MatchesGenre(req'[r].options.genre_filter, Films[k])
          /\ InBucket(impl, req'[r].options.era_filter, Films[k].year) )
        => k \in Range(req'[r].candidates)

\* C24: on a cache miss the result holds only films that have at least one
\* genre of the genre filter and a year in the bucket of the era filter,
\* where these are given, and the genre filter keeps every film that has
\* any one of its genres.
FiltersRespected == []ResultPassesFilters /\ [][AnyOfGenreKept]_vars

\* No scoring factor is available for the film under the profile: the
\* worker's factors are genre, era and runtime, the api's are genre (a
\* positive profile score among the film's genres) and tmdb_rating.
NoFactor(variant, m, profile) ==
  IF variant = "worker"
  THEN /\ m.genres = <<>> \/ DOMAIN profile.genres = {}
       /\ m.year = 0 \/ DOMAIN profile.eras = {}
       /\ m.runtime_minutes = 0 \/ profile.runtime_preference = ""
  ELSE /\ \A i \in 1..Len(m.genres) : Lookup(profile.genres, m.genres[i]) = 0
       /\ m.tmdb_rating = 0

\* C25: the local match score of a candidate row under a stored profile is
\* a number between 0 and 1 (0 and 1200 in units of 1/1200), also for a row
\* with no genre, no year or no runtime, and it is 0.5 when no scoring
\* factor is available.
LocalScoreInUnit ==
  probe.pc = "scored" =>
    /\ probe.result \in 0..1200
    /\ NoFactor(impl, probe.movie, probe.profile) => probe.result = 600

\* The same where the film has a genre or the engine is the api.
LocalScoreInUnitWithGenres ==
  probe.pc = "scored" /\ (impl = "api" \/ probe.movie.genres # <<>>) =>
    /\ probe.result \in 0..1200
    /\ NoFactor(impl, probe.movie, probe.profile) => probe.result = 600

\* The cache rows that were there at a lookup, of its context, and not yet
\* expired by the clock: written less than the cache duration before.
UnexpiredAtLookup(r) ==
  {j \in 1..req[r].lookupLen :
     /\ recommendations[j].context = ContextKey(impl, req[r].options)
     /\ recommendations[j].written + CACHE_DURATION_HOURS > req[r].lookupAt}

\* A lookup that found several unexpired rows of its context returned one
\* written latest.
LatestEntryServed ==
  \A r \in DOMAIN req :
    req[r].pc = "done" /\ req[r].path = "cache" /\ UnexpiredAtLookup(r) # {} =>
      \A j \in UnexpiredAtLookup(r) :
        recommendations[j].written <= recommendations[req[r].hit].written

\* A step leaves every cache row as it is and adds at most one at the end.
CacheOnlyInserted ==
  /\ Len(recommendations') \in {Len(recommendations), Len(recommendations) + 1}
  /\ \A j \in 1..Len(recommendations) : recommendations'[j] = recommendations[j]

\* C26: cache rows are only inserted, never updated in place, and a lookup
\* that finds several unexpired rows for its context key returns the one
\* created last.
CacheInsertOnlyLatestWins == []LatestEntryServed /\ [][CacheOnlyInserted]_vars

\* A lookup has been served the newer of two unexpired rows of its context.
NewerOfTwoServed ==
  \E r \in DOMAIN req :
    /\ req[r].pc = "done" /\ req[r].path = "cache"
    /\ Cardinality(UnexpiredAtLookup(r)) = 2
    /\ \E j \in UnexpiredAtLookup(r) :
         recommendations[j].written < recommendations[req[r].hit].written

\* C27: the diversity pass returns a permutation of the ranked list it is
\* given: no film is dropped or doubled, the admitted films come first in
\* their ranked order, and the deferred films follow in their ranked order.
DiversityPermutes ==
  probe.pc = "diversified" =>
    /\ Len(probe.out) = Len(probe.cut)
    /\ Range(probe.out) = Range(probe.cut)
    /\ \E admitted \in SUBSET Range(probe.cut) :
         probe.out = SelectSeq(probe.cut, LAMBDA k : k \in admitted)
                       \o SelectSeq(probe.cut, LAMBDA k : k \notin admitted)

\* Of three ranked films the second was deferred behind the third.
SecondDeferred ==
  /\ probe.pc = "diversified"
  /\ probe.cut = <<"tt1", "tt2", "tt3">>
  /\ probe.out = <<"tt1", "tt3", "tt2">>

\* The rows a call of calculateTasteProfile stores when it runs alone.
RowsOf(c) ==
  LET steps == StoreSteps(impl, calc[c].profile)
  IN {steps[i].row : i \in 1..Len(steps)}

\* Two calls have run to their end and every INSERT has run.
BothCompleted ==
  /\ \A c \in DOMAIN calc : calc[c].pc = "done"
  /\ inflight = {}

\* C28: once two calls of calculateTasteProfile have completed, in whatever
\* interleaving, neither has failed, the table holds no dimension row twice,
\* and its rows are those of one of the two calls.
ConcurrentCalcsSerial ==
  BothCompleted =>
    /\ \A c \in DOMAIN calc : calc[c].result = "ok"
    /\ \A i, j \in 1..Len(taste_profile) : taste_profile[i] = taste_profile[j] => i = j
    /\ \E c \in DOMAIN calc : Range(taste_profile) = RowsOf(c)

\* The same without the demand that neither call fails.
ConcurrentCalcsUnmixed ==
  BothCompleted =>
    /\ \A i, j \in 1..Len(taste_profile) : taste_profile[i] = taste_profile[j] => i = j
    /\ \E c \in DOMAIN calc : Range(taste_profile) = RowsOf(c)

\* The storage holds a rating of the store's user for the movie.
Stored(store, movieId) ==
  \E i \in 1..Len(store.ratings) :
    store.ratings[i].userId = UserId /\ store.ratings[i].movieId = movieId

\* The step is a call of addRating or deleteRating on the second store that
\* succeeds.
SecondSucceeds ==
  /\ second'.answer.tick # second.answer.tick
  /\ second'.answer.success

\* C29: with two stores of one user over one storage, a rating added with
\* success through the first store and persisted is still persisted after a
\* successful addRating, or deleteRating of another movie, through the
\* second store.
OtherStoreKeepsRatingStep ==
  \A k \in DOMAIN MOVIE_MAP :
    ( /\ SecondSucceeds
      /\ second'.answer.op = "deleteRating" => second'.answer.movieId # k
      /\ added[k] # 0
      /\ Stored(localStorage, k) )
    => Stored(localStorage', k)

OtherStoreKeepsRating == [][OtherStoreKeepsRatingStep]_vars

\* The step is a call of addRating, deleteRating or clearAllRatings that
\* returns a failure.
MutationFails ==
  /\ answer'.tick # answer.tick
  /\ answer'.op \in {"addRating", "deleteRating", "clearAllRatings"}
  /\ ~answer'.success

\* A failing call leaves the Map as it was.
FailureLeavesRatings == MutationFails => ratings' = ratings

\* A call whose save() fails returns a failure.
FailedSaveReported ==
  ( /\ answer'.tick # answer.tick
    /\ answer'.op \in {"addRating", "deleteRating", "clearAllRatings"}
    /\ ratings' # ratings
    /\ localStorage' = localStorage
    /\ MovieScores(load(localStorage, UserId)) = MovieScores(ratings) )
  => ~answer'.success

\* C30: when persisting fails in addRating, deleteRating or clearAllRatings
\* the call reports the failure and the ratings held in memory are those
\* from before the call.
FailedSaveRollsBack == [][FailedSaveReported /\ FailureLeavesRatings]_vars
====
